---- MODULE Spec2Model ----
(***************************************************************************)
(* The Snowman transitive consensus engine                                 *)
(* (snow/engine/snowman/transitive.go) as a state machine.                 *)
(*                                                                         *)
(* One action per message handler.  A handler is one atomic step: the Go   *)
(* engine is serialised by the context lock, and every call the handler    *)
(* makes (issueChain, deliver, the blocked jobs it wakes, the deferred     *)
(* work at its tail) is part of the step.  The handlers are written as     *)
(* operators over a record s holding the engine, the consensus instance,   *)
(* the VM and the record of what the running handler has emitted.          *)
(***************************************************************************)
EXTENDS Integers, Sequences, FiniteSets, TLC

VARIABLES
    requestID,            \* Transitive.requestID
    polls,                \* Transitive.polls, oldest first
    blkReqs,              \* Transitive.blkReqs: request -> block id (a bimap)
    blkReqSourceMetric,   \* Transitive.blkReqSourceMetric: request -> tag
    pending,              \* Transitive.pending (keys; the block is its id)
    nonVerifieds,         \* Transitive.nonVerifieds: child -> parent
    nonVerifiedCache,     \* Transitive.nonVerifiedCache (keys)
    acceptedFrontiers,    \* Transitive.acceptedFrontiers: peer -> accepted id
    blocked,              \* Transitive.blocked: block id -> jobs waiting on it
    jobs,                 \* the issuer / voter objects the blocker points to
    pendingBuildBlocks,   \* Transitive.pendingBuildBlocks
    errs,                 \* Transitive.errs (the latch)
    lastAccepted,         \* Consensus.LastAccepted
    processing,           \* Consensus: the processing blocks
    preference,           \* Consensus.Preference
    vmBlocks,             \* blocks VM.GetBlock returns
    vmPreference,         \* last id given to VM.SetPreference
    engineState,          \* Ctx.State
    vmState,              \* last state given to VM.SetState
    stateSyncing,         \* Ctx.StateSyncing
    network,              \* the blocks the peers and the VM can produce
    vmKeepsParsed,        \* whether VM.GetBlock returns a block it has only parsed
    handled,              \* the number of messages the caller has dispatched
    out                   \* what the last handler did: messages, calls, result

vars == << requestID, polls, blkReqs, blkReqSourceMetric, pending, nonVerifieds,
           nonVerifiedCache, acceptedFrontiers, blocked, jobs, pendingBuildBlocks,
           errs, lastAccepted, processing, preference, vmBlocks, vmPreference,
           engineState, vmState, stateSyncing, network, vmKeepsParsed,
           handled, out >>

----------------------------------------------------------------------------
(* Bounds of the model *)

MaxRequestID == 4
MaxPendingBuildBlocks == 2
MaxBlockedJobs == 2
MaxHandled == 4

(* Consensus parameters (Config.Params) *)

K == 1
OptimalProcessing == 2
ConcurrentRepolls == 1

----------------------------------------------------------------------------
(* Blocks.  A block is identified by its id; Parent, Height, Verify and    *)
(* Options are what the VM's block exposes.                                *)

Empty == "empty"          \* ids.Empty
Nil == "nil"              \* a nil error
ErrParse == "errParse"

Nodes == {"n1", "n2"}
SelfNode == "self"        \* Ctx.NodeID

Blocks == {"G", "A", "B", "C", "X", "L", "R", "V", "W"}

Parent == [b \in Blocks |->
             CASE b = "G" -> Empty
               [] b = "A" -> "G"
               [] b = "B" -> "A"
               [] b = "C" -> "B"
               [] b = "X" -> "G"
               [] b = "L" -> "X"
               [] b = "R" -> "X"
               [] b = "V" -> "A"
               [] b = "W" -> "V"]

RECURSIVE Height(_)
Height(b) == IF Parent[b] = Empty THEN 0 ELSE Height(Parent[b]) + 1

\* Block.Verify: it fails for V alone
Verify(b) == b \notin {"V"}

\* OracleBlock.Options: X is an oracle block, its options are L then R
Options(b) == IF b = "X" THEN << "L", "R" >> ELSE << >>

\* Block.Bytes and VM.ParseBlock
Bytes(b) == << "blk", b >>
ParseBlock(bytes) ==
    IF Len(bytes) = 2 /\ bytes[1] = "blk" /\ bytes[2] \in Blocks
    THEN bytes[2] ELSE ErrParse

\* b is a or a descendant of a
RECURSIVE IsDescendant(_, _)
IsDescendant(b, a) ==
    IF b = a THEN TRUE
    ELSE IF b \notin Blocks \/ Parent[b] = Empty THEN FALSE
    ELSE IsDescendant(Parent[b], a)

----------------------------------------------------------------------------
(* Maps *)

MapPut(f, k, v) == [x \in DOMAIN f \cup {k} |-> IF x = k THEN v ELSE f[x]]
MapDel(f, k) == [x \in DOMAIN f \ {k} |-> f[x]]
EmptyMap == [x \in {} |-> Empty]
SeqToSet(q) == {q[i] : i \in 1..Len(q)}

\* bimap.BiMap
Request(nodeID, rid) == << nodeID, rid >>
HasValue(m, v) == \E k \in DOMAIN m : m[k] = v
KeyOf(m, v) == CHOOSE k \in DOMAIN m : m[k] = v
BiPut(m, k, v) ==
    LET m1 == [x \in {y \in DOMAIN m : y # k /\ m[y] # v} |-> m[x]]
    IN MapPut(m1, k, v)

----------------------------------------------------------------------------
(* The record of what the running handler has done *)

Msg(type, to, rid, blk, height) ==
    [type |-> type, to |-> to, requestID |-> rid, blk |-> blk, height |-> height]



\* what a handler did.  put: whether the request was outstanding, the id it
\* was for, the id the reply parsed to, the jobs blocked on the expected id,
\* len(blkBytes).  chits: the chits given and what issueID answered for them.
NoOut == [handler |-> "none",
          put |-> [known |-> FALSE, request |-> Empty, expected |-> Empty,
                   actual |-> Empty, waiting |-> 0, len |-> 0],
          chits |-> [nodeID |-> Empty, requestID |-> 0,
                     preferredID |-> Empty, preferredIDAtHeight |-> Empty,
                     acceptedID |-> Empty,
                     waitPreferred |-> FALSE, waitAtHeight |-> FALSE],
          sent |-> << >>, adds |-> << >>,
          setPrefs |-> << >>, builds |-> 0, votes |-> << >>,
          requested |-> << >>, voters |-> << >>, initialized |-> << >>,
          cancelled |-> << >>, delivers |-> << >>,
          uselessPut |-> 0, uselessPush |-> 0, deferred |-> 0,
          requestedHeight |-> Empty,
          query |-> [nodeID |-> Empty, requestID |-> 0],
          msg |-> Empty, parsed |-> TRUE,
          fatal |-> FALSE, buildsAt |-> << >>, ret |-> Nil]

Send(s, m) == [s EXCEPT !.out.sent = Append(@, m)]

\* wrappers.Errs.Add
ErrsAdd(s, err) == [s EXCEPT !.errs = IF @ = Nil THEN err ELSE @]

----------------------------------------------------------------------------
(* Consensus (snowman.Consensus) *)

AlphaPreference == 1
AlphaConfidence == 1

Processing(s, id) == id \in s.processing
LastAcceptedHeight(s) == Height(s.lastAccepted)
NumProcessing(s) == Cardinality(s.processing)

\* the block is the last accepted one or on the preferred chain
IsPreferred(s, id) ==
    /\ id = s.lastAccepted \/ id \in s.processing
    /\ IsDescendant(s.preference, id)

Rank(b) == CHOOSE i \in 1..9 : << "G", "A", "B", "C", "X", "L", "R", "V", "W" >>[i] = b

\* the tail of the chain the consensus instance prefers from b on
RECURSIVE Tip(_, _)
Tip(proc, b) ==
    LET kids == {c \in proc : Parent[c] = b}
    IN IF kids = {} THEN b
       ELSE Tip(proc, CHOOSE c \in kids : \A d \in kids : Rank(c) <= Rank(d))

\* ancestor.Tree
TreeHas(np, id) == id \in DOMAIN np
TreeAdd(np, id, parentID) == MapPut(np, id, parentID)
TreeRemove(np, id) == MapDel(np, id)
RECURSIVE GetAncestor(_, _)
GetAncestor(np, id) == IF id \in DOMAIN np THEN GetAncestor(np, np[id]) ELSE id
RECURSIVE TreeUnder(_, _, _)
TreeUnder(np, id, root) ==
    IF id = root THEN TRUE
    ELSE IF id \in DOMAIN np THEN TreeUnder(np, np[id], root) ELSE FALSE
RemoveDescendants(np, roots) ==
    [x \in {y \in DOMAIN np : ~ \E r \in roots : TreeUnder(np, y, r)} |-> np[x]]

\* Consensus.Add
ConsensusAdd(s, blk) ==
    IF blk \in s.processing
       \/ ~ (Parent[blk] = s.lastAccepted \/ Parent[blk] \in s.processing)
    THEN [s |-> [s EXCEPT !.out.fatal = TRUE], err |-> "errAdd"]
    ELSE [s |-> [s EXCEPT !.processing = @ \cup {blk},
                          !.preference = IF @ = Parent[blk] THEN blk ELSE @],
          err |-> Nil]

\* memoryBlock.Accept / Reject of the blocks a poll decides: v and its
\* processing ancestors are accepted, what conflicts with them is rejected
ConsensusAccept(s, v) ==
    LET chain == {b \in s.processing : IsDescendant(v, b)}
        rest == {b \in s.processing : IsDescendant(b, v) /\ b # v}
        rejected == s.processing \ (chain \cup rest)
        roots == {Parent[a] : a \in chain} \cup rejected
    IN [s EXCEPT !.lastAccepted = v,
                 !.processing = rest,
                 !.preference = IF @ \in rest THEN @ ELSE Tip(rest, v),
                 !.nonVerifieds = RemoveDescendants(@, roots)]

ConsensusPrefer(s, v) ==
    [s EXCEPT !.preference = IF IsDescendant(@, v) THEN @ ELSE Tip(s.processing, v)]

\* Consensus.RecordPoll: the decision rule is the consensus instance's; the
\* environment says whether this poll finalises the block voted for
RecordPoll(s, votes) ==
    LET winners == {b \in s.processing : votes[b] >= AlphaPreference}
    IN IF winners = {} THEN s
       ELSE LET v == CHOOSE b \in winners : \A c \in winners : votes[b] >= votes[c]
            IN IF s.env.accept THEN ConsensusAccept(s, v) ELSE ConsensusPrefer(s, v)

----------------------------------------------------------------------------
(* poll.Set *)

BagLen(f) == LET RECURSIVE Sum(_)
                 Sum(S) == IF S = {} THEN 0
                           ELSE LET x == CHOOSE y \in S : TRUE IN f[x] + Sum(S \ {x})
             IN Sum(DOMAIN f)
MaxCount(f) == CHOOSE m \in {f[x] : x \in DOMAIN f} : \A x \in DOMAIN f : f[x] <= m

PollFinished(p) ==
    LET remaining == BagLen(p.polled)
        freq == MaxCount(p.votes)
    IN \/ remaining = 0
       \/ freq + remaining < AlphaPreference
       \/ freq >= AlphaConfidence

PollsHas(s, rid) == \E i \in 1..Len(s.polls) : s.polls[i].requestID = rid

\* Set.Add
PollsAdd(s, rid, vdrs) ==
    IF PollsHas(s, rid) THEN [s |-> s, ok |-> FALSE]
    ELSE [s |-> [s EXCEPT !.polls = Append(@, [requestID |-> rid,
                                               polled |-> [n \in Nodes |-> Cardinality({i \in 1..Len(vdrs) : vdrs[i] = n})],
                                               votes |-> [b \in Blocks |-> 0]])],
          ok |-> TRUE]

\* the finished polls at the head of the set, oldest first
RECURSIVE FinishedPrefix(_)
FinishedPrefix(ps) ==
    IF ps = << >> \/ ~ PollFinished(Head(ps)) THEN 0
    ELSE 1 + FinishedPrefix(Tail(ps))

\* Set.Vote (vote # Empty) and Set.Drop (vote = Empty)
PollsVote(s, rid, vdr, vote) ==
    IF ~ PollsHas(s, rid) THEN [s |-> s, results |-> << >>]
    ELSE LET i == CHOOSE j \in 1..Len(s.polls) : s.polls[j].requestID = rid
             p == s.polls[i]
             count == p.polled[vdr]
             p1 == [p EXCEPT !.polled[vdr] = 0,
                             !.votes = IF vote = Empty THEN @
                                       ELSE [@ EXCEPT ![vote] = @ + count]]
             ps == [s.polls EXCEPT ![i] = p1]
             n == FinishedPrefix(ps)
         IN IF ~ PollFinished(p1) THEN [s |-> [s EXCEPT !.polls = ps], results |-> << >>]
            ELSE [s |-> [s EXCEPT !.polls = SubSeq(ps, n + 1, Len(ps))],
                  results |-> [k \in 1..n |-> ps[k].votes]]

----------------------------------------------------------------------------
(* The engine: helpers *)

\* VM.SetPreference; fails when the environment says so
VMSetPreference(s, id) ==
    IF s.env.setPrefFails
    THEN [s |-> [s EXCEPT !.out.setPrefs = Append(@, id), !.out.fatal = TRUE],
          err |-> "errSetPreference"]
    ELSE [s |-> [s EXCEPT !.out.setPrefs = Append(@, id), !.vmPreference = id],
          err |-> Nil]

getBlock(s, blkID) ==
    \/ blkID \in s.pending
    \/ blkID \in s.nonVerifiedCache
    \/ blkID \in s.vmBlocks

isBlockDecided(s, blk) ==
    IF Height(blk) <= LastAcceptedHeight(s) THEN TRUE
    ELSE /\ Height(blk) = LastAcceptedHeight(s) + 1
         /\ Parent[blk] # s.lastAccepted

\* shouldBlockBeDropped without its check that the block is processing
shouldBlockBeDroppedIfDecided(s, blk) == isBlockDecided(s, blk)

shouldBlockBeDropped(s, blk) ==
    Processing(s, blk) \/ isBlockDecided(s, blk)

canBlockHaveChildIssued(s, parentID) ==
    parentID = s.lastAccepted \/ Processing(s, parentID)

shouldBlockBeQueuedForIssuance(s, blk) ==
    IF shouldBlockBeDropped(s, blk) THEN FALSE ELSE blk \notin s.pending

\* DeleteValue that leaves the request's tag behind
deleteRequestKeepingTag(s, blkID) ==
    IF HasValue(s.blkReqs, blkID)
    THEN LET req == KeyOf(s.blkReqs, blkID)
         IN [s EXCEPT !.blkReqs = MapDel(@, req),
                      !.out.cancelled = Append(@, req)]
    ELSE s

\* no DeleteValue at all: a request outlives the arrival of its block
deleteRequestNever(s, blkID) == s

\* blkReqs.DeleteValue(blkID) followed by the delete of the request's tag
deleteRequestOf(s, blkID) ==
    IF HasValue(s.blkReqs, blkID)
    THEN LET req == KeyOf(s.blkReqs, blkID)
         IN [s EXCEPT !.blkReqs = MapDel(@, req),
                      !.blkReqSourceMetric = MapDel(@, req),
                      !.out.cancelled = Append(@, req)]
    ELSE s

\* sendRequest taking a request id for a block already requested
sendRequestCounting(s, nodeID, blkID, issuedMetric) ==
    IF HasValue(s.blkReqs, blkID) THEN [s EXCEPT !.requestID = @ + 1]
    ELSE Send([s EXCEPT !.requestID = @ + 1,
                        !.blkReqs = BiPut(@, Request(nodeID, s.requestID + 1), blkID),
                        !.blkReqSourceMetric =
                            MapPut(@, Request(nodeID, s.requestID + 1), issuedMetric)],
              Msg("Get", {nodeID}, s.requestID + 1, blkID, 0))

\* sendRequest asking again for a block already requested
sendRequestAgain(s, nodeID, blkID, issuedMetric) ==
    Send([s EXCEPT !.requestID = @ + 1,
                   !.blkReqs = MapPut(@, Request(nodeID, s.requestID + 1), blkID),
                   !.blkReqSourceMetric =
                       MapPut(@, Request(nodeID, s.requestID + 1), issuedMetric)],
         Msg("Get", {nodeID}, s.requestID + 1, blkID, 0))

\* sendRequest using the request id of the last message sent
sendRequestReusing(s, nodeID, blkID, issuedMetric) ==
    IF HasValue(s.blkReqs, blkID) THEN s
    ELSE Send([s EXCEPT !.blkReqs = BiPut(@, Request(nodeID, s.requestID), blkID),
                        !.blkReqSourceMetric =
                            MapPut(@, Request(nodeID, s.requestID), issuedMetric)],
              Msg("Get", {nodeID}, s.requestID, blkID, 0))

sendRequest(s, nodeID, blkID, issuedMetric) ==
    IF HasValue(s.blkReqs, blkID) THEN s
    ELSE LET rid == s.requestID + 1
             req == Request(nodeID, rid)
             s1 == [s EXCEPT !.requestID = rid,
                             !.blkReqs = BiPut(@, req, blkID),
                             !.blkReqSourceMetric = MapPut(@, req, issuedMetric)]
         IN Send(s1, Msg("Get", {nodeID}, rid, blkID, 0))

\* sendQuery taking a request id before it samples the validators
sendQueryCounting(s, blkID, push) ==
    IF ~ s.env.sampleOK THEN [s EXCEPT !.requestID = @ + 1]
    ELSE LET nextHeightToAccept == LastAcceptedHeight(s) + 1
             rid == s.requestID + 1
             r == PollsAdd([s EXCEPT !.requestID = rid], rid, s.env.sample)
         IN IF ~ r.ok THEN r.s
            ELSE Send(r.s, Msg(IF push THEN "PushQuery" ELSE "PullQuery",
                               SeqToSet(s.env.sample), rid, blkID, nextHeightToAccept))

sendQuery(s, blkID, push) ==
    IF ~ s.env.sampleOK THEN s
    ELSE LET nextHeightToAccept == LastAcceptedHeight(s) + 1
             rid == s.requestID + 1
             r == PollsAdd([s EXCEPT !.requestID = rid], rid, s.env.sample)
         IN IF ~ r.ok THEN r.s
            ELSE Send(r.s, Msg(IF push THEN "PushQuery" ELSE "PullQuery",
                               SeqToSet(s.env.sample), rid, blkID, nextHeightToAccept))

\* addToNonVerifieds taking a block whatever its parent
addToNonVerifiedsOrphan(s, blk) ==
    IF shouldBlockBeDropped(s, blk) THEN s
    ELSE [s EXCEPT !.nonVerifieds = TreeAdd(@, blk, Parent[blk]),
                   !.nonVerifiedCache = @ \cup {blk}]

addToNonVerifieds(s, blk) ==
    IF shouldBlockBeDropped(s, blk) THEN s
    ELSE IF TreeHas(s.nonVerifieds, Parent[blk]) \/ Processing(s, Parent[blk])
    THEN [s EXCEPT !.nonVerifieds = TreeAdd(@, blk, Parent[blk]),
                   !.nonVerifiedCache = @ \cup {blk}]
    ELSE s

RECURSIVE ancestorLoop(_, _, _), ancestorLoopPastDecided(_, _, _)

\* the walk without its check of the height: it goes on below the last
\* accepted block
ancestorLoopPastDecided(s, initialVote, bubbledVote) ==
    IF Processing(s, bubbledVote)
    THEN [ok |-> TRUE, id |-> bubbledVote,
          label |-> IF bubbledVote # initialVote THEN "ancestor" ELSE "self"]
    ELSE IF ~ getBlock(s, bubbledVote)
    THEN [ok |-> FALSE, id |-> Empty, label |-> "missing"]
    ELSE ancestorLoopPastDecided(s, initialVote, Parent[bubbledVote])

ancestorLoop(s, initialVote, bubbledVote) ==
    IF Processing(s, bubbledVote)
    THEN [ok |-> TRUE, id |-> bubbledVote,
          label |-> IF bubbledVote # initialVote THEN "ancestor" ELSE "self"]
    ELSE IF ~ getBlock(s, bubbledVote)
    THEN [ok |-> FALSE, id |-> Empty, label |-> "missing"]
    ELSE IF Height(bubbledVote) <= LastAcceptedHeight(s) + 1
    THEN [ok |-> FALSE, id |-> Empty, label |-> "decided"]
    ELSE ancestorLoop(s, initialVote, Parent[bubbledVote])

getProcessingAncestor(s, initialVote) ==
    ancestorLoop(s, initialVote, GetAncestor(s.nonVerifieds, initialVote))

----------------------------------------------------------------------------
(* Blocked jobs: event.Blocker, issuer and voter *)

IssuerJob(nodeID, blk, issuedMetric, deps) ==
    [kind |-> "issuer", nodeID |-> nodeID, blk |-> blk, issuedMetric |-> issuedMetric,
     push |-> FALSE, abandoned |-> FALSE, deps |-> deps,
     requestID |-> 0, responseOptions |-> << >>]

VoterJob(vdr, rid, responseOptions, deps) ==
    [kind |-> "voter", nodeID |-> vdr, blk |-> Empty, issuedMetric |-> "none",
     push |-> FALSE, abandoned |-> FALSE, deps |-> deps,
     requestID |-> rid, responseOptions |-> responseOptions]

RECURSIVE pickVote(_, _, _), pickVoteLast(_, _, _)

\* the last response option with a processing ancestor
pickVoteLast(s, opts, i) ==
    IF i > Len(opts) THEN [ok |-> FALSE, id |-> Empty, index |-> 0, labels |-> << >>]
    ELSE LET r == getProcessingAncestor(s, opts[i])
             n == pickVoteLast(s, opts, i + 1)
         IN IF n.ok \/ ~ r.ok THEN [n EXCEPT !.labels = << r.label >> \o @]
            ELSE [ok |-> TRUE, id |-> r.id, index |-> i,
                  labels |-> << r.label >> \o n.labels]

\* the first response option with a processing ancestor
pickVote(s, opts, i) ==
    IF i > Len(opts) THEN [ok |-> FALSE, id |-> Empty, index |-> 0, labels |-> << >>]
    ELSE LET r == getProcessingAncestor(s, opts[i])
         IN IF r.ok THEN [ok |-> TRUE, id |-> r.id, index |-> i, labels |-> << r.label >>]
            ELSE LET n == pickVote(s, opts, i + 1)
                 IN [n EXCEPT !.labels = << r.label >> \o @]

RECURSIVE recordPolls(_, _)
recordPolls(s, results) ==
    IF results = << >> THEN s
    ELSE recordPolls(RecordPoll(s, Head(results)), Tail(results))

\* voter.Update, from the vote it picked on
voterPreferred(p) == IF p.err # Nil THEN ErrsAdd(p.s, p.err) ELSE p.s

voterRecorded(s) == voterPreferred(VMSetPreference(s, s.preference))

voterVoted(r) ==
    IF r.results = << >> THEN r.s ELSE voterRecorded(recordPolls(r.s, r.results))

voterVote(s, job, pick) ==
    voterVoted(PollsVote([s EXCEPT !.out.votes =
                             Append(@, [requestID |-> job.requestID,
                                        vdr |-> job.nodeID,
                                        vote |-> pick.id,
                                        index |-> pick.index,
                                        labels |-> pick.labels,
                                        options |-> job.responseOptions,
                                        processing |-> s.processing])],
                         job.requestID, job.nodeID, pick.id))

voterUpdate(s, job) ==
    IF job.deps # {} \/ s.errs # Nil THEN s
    ELSE voterVote(s, job, pickVote(s, job.responseOptions, 1))

\* the smallest job name not in use
NewJob(s) == CHOOSE j \in 1..(Cardinality(DOMAIN s.jobs) + 1) : j \notin DOMAIN s.jobs

\* a job no list of the blocker holds any more is garbage
Collect(s) ==
    [s EXCEPT !.jobs = [j \in {k \in DOMAIN @ : \E id \in DOMAIN s.blocked :
                                      k \in SeqToSet(s.blocked[id])} |-> @[j]]]

----------------------------------------------------------------------------
(* deliver, and the jobs it fulfils or abandons *)

RECURSIVE deliver(_, _, _, _, _), deliverLoop(_, _, _, _, _, _),
          deliverLoopOfDropped(_, _, _, _, _, _),
          deliverIssued(_, _, _), deliverIssuedTwice(_, _, _),
          deliverPreferred(_, _, _, _),
          fulfillBlks(_, _, _), abandonBlks(_, _),
          blockedFulfill(_, _), blockedAbandon(_, _),
          fulfillJobs(_, _, _), abandonJobs(_, _, _),
          jobFulfill(_, _, _), jobAbandon(_, _, _), jobUpdate(_, _),
          issuerUpdate(_, _)

\* issuer.Update: t.errs.Add(deliver(...))
issuerDelivered(r) == ErrsAdd(r.s, r.err)

\* issuer.Update
issuerUpdate(s, job) ==
    IF job.abandoned \/ job.deps # {} \/ s.errs # Nil THEN s
    ELSE issuerDelivered(deliver(s, job.nodeID, job.blk, job.push, job.issuedMetric))

\* issuer.Fulfill, voter.Fulfill
jobFulfill(s, j, id) ==
    jobUpdate([s EXCEPT !.jobs[j].deps = @ \ {id}], j)

\* the Update a job runs when a dependency is gone
jobUpdate(s, j) ==
    IF s.jobs[j].kind = "issuer"
    THEN issuerUpdate(s, s.jobs[j]) ELSE voterUpdate(s, s.jobs[j])

\* issuer.Abandon, voter.Abandon
jobAbandon(s, j, id) ==
    LET job == s.jobs[j]
    IN IF job.kind = "voter" THEN jobFulfill(s, j, id)
       ELSE IF job.abandoned THEN s
       ELSE [blockedAbandon(addToNonVerifieds([s EXCEPT !.pending = @ \ {job.blk}],
                                              job.blk),
                            job.blk)
               EXCEPT !.jobs[j].abandoned = TRUE]

fulfillJobs(s, js, id) ==
    IF js = << >> THEN s
    ELSE fulfillJobs(jobFulfill(s, Head(js), id), Tail(js), id)

abandonJobs(s, js, id) ==
    IF js = << >> THEN s
    ELSE abandonJobs(jobAbandon(s, Head(js), id), Tail(js), id)

\* Blocker.Fulfill
blockedFulfill(s, id) ==
    fulfillJobs([s EXCEPT !.blocked[id] = << >>], s.blocked[id], id)

\* Blocker.Abandon
blockedAbandon(s, id) ==
    abandonJobs([s EXCEPT !.blocked[id] = << >>], s.blocked[id], id)

\* the loop of deliver queueing the options of a block it drops
deliverLoopOfDropped(s, nodeID, issuedMetric, blksToIssue, blksToFulfill, blksToAbandon) ==
    IF blksToIssue = << >>
    THEN [s |-> s, fulfill |-> blksToFulfill, abandon |-> blksToAbandon, err |-> Nil]
    ELSE LET blk == Head(blksToIssue)
             rest == Tail(blksToIssue)
         IN IF shouldBlockBeDropped(s, blk)
            THEN deliverLoop(s, nodeID, issuedMetric, rest \o Options(blk), blksToFulfill,
                             Append(blksToAbandon, blk))
            ELSE IF ~ canBlockHaveChildIssued(s, Parent[blk])
            THEN deliverLoop(s, nodeID, issuedMetric, rest, blksToFulfill,
                             Append(blksToAbandon, blk))
            ELSE IF ~ Verify(blk)
            THEN deliverLoop(addToNonVerifieds(s, blk), nodeID, issuedMetric, rest,
                             blksToFulfill, Append(blksToAbandon, blk))
            ELSE LET s1 == [s EXCEPT !.nonVerifieds = TreeRemove(@, blk),
                                     !.nonVerifiedCache = @ \ {blk},
                                     !.vmBlocks = @ \cup {blk},
                                     !.out.adds = Append(@,
                                         [blk |-> blk, nodeID |-> nodeID,
                                          issuedMetric |-> issuedMetric,
                                          processing |-> s.processing,
                                          lastAccepted |-> s.lastAccepted,
                                          inTree |-> DOMAIN s.nonVerifieds \ {blk},
                                          at |-> Len(s.out.sent)])]
                     a == ConsensusAdd(s1, blk)
                 IN IF a.err # Nil
                    THEN [s |-> a.s, fulfill |-> blksToFulfill,
                          abandon |-> blksToAbandon, err |-> a.err]
                    ELSE deliverLoop(a.s, nodeID, issuedMetric, rest \o Options(blk),
                                     Append(blksToFulfill, blk), blksToAbandon)

\* the loop of deliver over blksToIssue
deliverLoop(s, nodeID, issuedMetric, blksToIssue, blksToFulfill, blksToAbandon) ==
    IF blksToIssue = << >>
    THEN [s |-> s, fulfill |-> blksToFulfill, abandon |-> blksToAbandon, err |-> Nil]
    ELSE LET blk == Head(blksToIssue)
             rest == Tail(blksToIssue)
         IN IF shouldBlockBeDropped(s, blk)
            THEN deliverLoop(s, nodeID, issuedMetric, rest, blksToFulfill,
                             Append(blksToAbandon, blk))
            ELSE IF ~ canBlockHaveChildIssued(s, Parent[blk])
            THEN deliverLoop(s, nodeID, issuedMetric, rest, blksToFulfill,
                             Append(blksToAbandon, blk))
            ELSE IF ~ Verify(blk)
            THEN deliverLoop(addToNonVerifieds(s, blk), nodeID, issuedMetric, rest,
                             blksToFulfill, Append(blksToAbandon, blk))
            ELSE LET s1 == [s EXCEPT !.nonVerifieds = TreeRemove(@, blk),
                                     !.nonVerifiedCache = @ \ {blk},
                                     !.vmBlocks = @ \cup {blk},
                                     !.out.adds = Append(@,
                                         [blk |-> blk, nodeID |-> nodeID,
                                          issuedMetric |-> issuedMetric,
                                          processing |-> s.processing,
                                          lastAccepted |-> s.lastAccepted,
                                          inTree |-> DOMAIN s.nonVerifieds \ {blk},
                                          at |-> Len(s.out.sent)])]
                     a == ConsensusAdd(s1, blk)
                 IN IF a.err # Nil
                    THEN [s |-> a.s, fulfill |-> blksToFulfill,
                          abandon |-> blksToAbandon, err |-> a.err]
                    ELSE deliverLoop(a.s, nodeID, issuedMetric, rest \o Options(blk),
                                     Append(blksToFulfill, blk), blksToAbandon)

fulfillBlks(s, blks, push) ==
    IF blks = << >> THEN s
    ELSE LET blk == Head(blks)
             s1 == IF IsPreferred(s, blk) THEN sendQuery(s, blk, push) ELSE s
             s2 == deleteRequestOf([s1 EXCEPT !.pending = @ \ {blk}], blk)
         IN fulfillBlks(blockedFulfill(s2, blk), Tail(blks), push)

abandonBlks(s, blks) ==
    IF blks = << >> THEN s
    ELSE LET blk == Head(blks)
             s1 == deleteRequestOf([s EXCEPT !.pending = @ \ {blk}], blk)
         IN abandonBlks(blockedAbandon(s1, blk), Tail(blks))

\* the return of deliver, s0 being the state it was called in and drained
\* the consensus preference its call of VM.SetPreference was given
deliverUnblocked(s0, s, added, drained) ==
    [s |-> [s EXCEPT !.out.delivers = Append(@,
               [added |-> added,
                wasPending |-> added \cap s0.pending,
                wasRequested |-> {b \in added : HasValue(s0.blkReqs, b)},
                pending |-> added \cap s.pending,
                requested |-> {b \in added : HasValue(s.blkReqs, b)},
                drained |-> drained,
                given |-> s.vmPreference,
                preferred |-> s.preference,
                err |-> s.errs])],
     err |-> s.errs]

deliver(s, nodeID, blk, push, issuedMetric) ==
    deliverIssued(s, deliverLoop(s, nodeID, issuedMetric, << blk >>, << >>, << >>), push)

\* deliver handing the preference to the VM twice
deliverIssuedTwice(s, r, push) ==
    IF r.err # Nil THEN [s |-> r.s, err |-> r.err]
    ELSE deliverPreferred(s, VMSetPreference(VMSetPreference(r.s, r.s.preference).s,
                                             r.s.preference), r, push)

\* deliver after its loop: the preference is handed to the VM
deliverIssued(s, r, push) ==
    IF r.err # Nil THEN [s |-> r.s, err |-> r.err]
    ELSE deliverPreferred(s, VMSetPreference(r.s, r.s.preference), r, push)

\* deliver after SetPreference: the added blocks are fulfilled, the others
\* abandoned
deliverPreferred(s, p, r, push) ==
    IF p.err # Nil THEN [s |-> p.s, err |-> p.err]
    ELSE deliverUnblocked(s, abandonBlks(fulfillBlks(p.s, r.fulfill, push), r.abandon),
                          SeqToSet(r.fulfill), p.s.preference)

\* Blocker.Register
Register(s, job) ==
    IF job.deps = {}
    THEN IF job.kind = "issuer" THEN issuerUpdate(s, job) ELSE voterUpdate(s, job)
    ELSE LET c == Collect(s)
             j == NewJob(c)
         IN [c EXCEPT !.jobs = MapPut(@, j, job),
                      !.blocked = [id \in DOMAIN @ |->
                                     IF id \in job.deps THEN Append(@[id], j) ELSE @[id]]]

----------------------------------------------------------------------------
(* issueID, issueChain, buildBlock, executeDeferredWork *)

\* the pending table never consulted: a block is queued again
isPendingNever(s, blkID) == FALSE

\* _, isPending := t.pending[blkID]
isPending(s, blkID) == blkID \in s.pending

RECURSIVE issueChain(_, _, _, _), issueChainFrom(_, _, _, _),
          issueChainRegistered(_, _, _, _), issueChainRegisteredStaying(_, _, _, _)

\* one iteration of the loop of issueChain, and how it ended, noted in the
\* trace of the call (s.chain, which no handler keeps)
issueChainVisit(s, blk, exit) ==
    [s EXCEPT !.chain = Append(@, [blk |-> blk, exit |-> exit,
                                   pending |-> blk \in s.pending,
                                   known |-> getBlock(s, Parent[blk])])]

issueChainAbandoned(s) == [s |-> s, wait |-> FALSE, err |-> s.errs]

issueChainDelivered(r) == [s |-> r.s, wait |-> FALSE, err |-> r.err]

\* the parent is unknown: transitive.go:770 passes blkID, the id of the block
\* just marked pending, not parentID
issueChainRequest(s, nodeID, blk, issuedMetric) ==
    [s |-> sendRequest([s EXCEPT !.out.requested =
                           Append(@, [blk |-> blk, parentID |-> Parent[blk],
                                      nodeID |-> nodeID,
                                      parentRequested |->
                                          HasValue(s.blkReqs, Parent[blk]),
                                      at |-> Len(s.out.sent)])],
                       nodeID, blk, issuedMetric),
     wait |-> TRUE, err |-> Nil]

\* issueChain going round its loop with the same block
issueChainRegisteredStaying(s, nodeID, blk, issuedMetric) ==
    IF getBlock(s, Parent[blk])
    THEN issueChain(issueChainVisit(s, blk, "parent"), nodeID, blk, issuedMetric)
    ELSE issueChainRequest(issueChainVisit(s, blk, "requested"), nodeID, blk,
                           issuedMetric)

\* the block waits for its parent: on to the parent, or fetch it
issueChainRegistered(s, nodeID, blk, issuedMetric) ==
    IF getBlock(s, Parent[blk])
    THEN issueChain(issueChainVisit(s, blk, "parent"), nodeID, Parent[blk],
                    issuedMetric)
    ELSE issueChainRequest(issueChainVisit(s, blk, "requested"), nodeID, blk,
                           issuedMetric)

\* issueChain once the request for the block is dropped
issueChainFrom(s, nodeID, blk, issuedMetric) ==
    IF isBlockDecided(s, blk)
    THEN issueChainAbandoned(blockedAbandon(issueChainVisit(s, blk, "decided"), blk))
    ELSE IF canBlockHaveChildIssued(s, blk)
    THEN [s |-> issueChainVisit(s, blk, "issuable"), wait |-> FALSE, err |-> Nil]
    ELSE IF isPending(s, blk)
    THEN [s |-> issueChainVisit(s, blk, "pending"), wait |-> TRUE, err |-> Nil]
    ELSE IF canBlockHaveChildIssued(s, Parent[blk])
    THEN issueChainDelivered(deliver(issueChainVisit(s, blk, "delivered"),
                                     nodeID, blk, FALSE, issuedMetric))
    ELSE issueChainRegistered(
             Register([s EXCEPT !.pending = @ \cup {blk}],
                      IssuerJob(nodeID, blk, issuedMetric, {Parent[blk]})),
             nodeID, blk, issuedMetric)

issueChain(s, nodeID, blk, issuedMetric) ==
    issueChainFrom(deleteRequestOf(s, blk), nodeID, blk, issuedMetric)

issueID(s, nodeID, blkID, issuedMetric) ==
    IF ~ getBlock(s, blkID)
    THEN [s |-> sendRequest(s, nodeID, blkID, issuedMetric), wait |-> TRUE, err |-> Nil]
    ELSE issueChain(s, nodeID, blkID, issuedMetric)

\* VM.BuildBlock: the VM builds on the preferred block, or builds the block
\* the environment names, or fails
VMBuildBlock(s) ==
    IF s.env.build = "pref"
    THEN CASE s.preference = "G" -> "A" [] s.preference = "A" -> "B"
           [] s.preference = "B" -> "C" [] OTHER -> "fail"
    ELSE s.env.build

\* buildBlock delivering the built block with push = false
buildBlockPulling(s, blk) ==
    IF blk = "fail" THEN [s |-> s, err |-> Nil]
    ELSE IF shouldBlockBeDropped(s, blk) THEN [s |-> s, err |-> Nil]
    ELSE IF ~ canBlockHaveChildIssued(s, Parent[blk]) THEN [s |-> s, err |-> Nil]
    ELSE deliver(deleteRequestOf(s, blk), SelfNode, blk, FALSE, "built")

\* buildBlock returning the error of VM.BuildBlock
buildBlockFailing(s, blk) ==
    IF blk = "fail" THEN [s |-> s, err |-> "errBuildBlock"]
    ELSE IF shouldBlockBeDropped(s, blk) THEN [s |-> s, err |-> Nil]
    ELSE IF ~ canBlockHaveChildIssued(s, Parent[blk]) THEN [s |-> s, err |-> Nil]
    ELSE deliver(deleteRequestOf(s, blk), SelfNode, blk, TRUE, "built")

\* buildBlock with what the VM built
buildBlockBuilt(s, blk) ==
    IF blk = "fail" THEN [s |-> s, err |-> Nil]
    ELSE IF shouldBlockBeDropped(s, blk) THEN [s |-> s, err |-> Nil]
    ELSE IF ~ canBlockHaveChildIssued(s, Parent[blk]) THEN [s |-> s, err |-> Nil]
    ELSE deliver(deleteRequestOf(s, blk), SelfNode, blk, TRUE, "built")

buildBlock(s) == buildBlockBuilt([s EXCEPT !.out.builds = @ + 1], VMBuildBlock(s))

RECURSIVE buildLoop(_), buildLoopBuilt(_), buildLoopUnthrottled(_)

\* the loop building whatever the number of processing blocks
buildLoopUnthrottled(s) ==
    IF s.pendingBuildBlocks > 0
    THEN buildLoopBuilt(buildBlock(
             [s EXCEPT !.pendingBuildBlocks = @ - 1,
                       !.out.buildsAt = Append(@, [counter |-> s.pendingBuildBlocks,
                                                   processing |-> NumProcessing(s)])]))
    ELSE [s |-> s, err |-> Nil]

buildLoop(s) ==
    IF s.pendingBuildBlocks > 0 /\ NumProcessing(s) < OptimalProcessing
    THEN buildLoopBuilt(buildBlock(
             [s EXCEPT !.pendingBuildBlocks = @ - 1,
                       !.out.buildsAt = Append(@, [counter |-> s.pendingBuildBlocks,
                                                   processing |-> NumProcessing(s)])]))
    ELSE [s |-> s, err |-> Nil]

buildLoopBuilt(r) == IF r.err # Nil THEN r ELSE buildLoop(r.s)

RECURSIVE repollLoop(_, _, _), repollLoopPushing(_, _, _)

\* the repolls sent as push queries
repollLoopPushing(s, preferredID, i) ==
    IF i < ConcurrentRepolls
    THEN repollLoop(sendQuery(s, preferredID, TRUE), preferredID, i + 1)
    ELSE s

repollLoop(s, preferredID, i) ==
    IF i < ConcurrentRepolls
    THEN repollLoop(sendQuery(s, preferredID, FALSE), preferredID, i + 1)
    ELSE s

deferredReturn(s) == [s |-> s, err |-> s.errs]

\* executeDeferredWork after the blocks are built: the repolls
deferredRepoll(b) ==
    IF b.err # Nil THEN b
    ELSE deferredReturn(IF NumProcessing(b.s) > 0
                        THEN repollLoop(b.s, b.s.preference, Len(b.s.polls))
                        ELSE b.s)

\* the deferred work without the check of the error latch at its head
deferredBuildUnlatched(s) == deferredRepoll(buildLoop(s))

deferredBuild(s) ==
    IF s.errs # Nil THEN [s |-> s, err |-> s.errs] ELSE deferredRepoll(buildLoop(s))

executeDeferredWork(s) == deferredBuild([s EXCEPT !.out.deferred = @ + 1])

----------------------------------------------------------------------------
(* sendChits *)

RECURSIVE AncestorAt(_, _)
AncestorAt(b, h) ==
    IF Height(b) = h THEN b ELSE AncestorAt(Parent[b], h)

\* VM.GetBlockIDAtHeight
GetBlockIDAtHeight(s, h) ==
    IF h <= LastAcceptedHeight(s) /\ ~ s.env.pruned
    THEN AncestorAt(s.lastAccepted, h) ELSE Empty

\* Consensus.PreferenceAtHeight
PreferenceAtHeight(s, h) ==
    IF h <= Height(s.preference) /\ AncestorAt(s.preference, h) \in s.processing
    THEN AncestorAt(s.preference, h) ELSE Empty

Chit(nodeID, rid, preferredID, preferredIDAtHeight, acceptedID) ==
    [type |-> "Chits", to |-> {nodeID}, requestID |-> rid, blk |-> preferredID,
     height |-> 0, atHeight |-> preferredIDAtHeight, accepted |-> acceptedID]

\* sendChits without its branch for a node that is not fully verifying
sendChitsVerifying(s, nodeID, rid, requestedHeight) ==
    IF requestedHeight < LastAcceptedHeight(s)
    THEN LET got == GetBlockIDAtHeight(s, requestedHeight)
             preferenceAtHeight == IF got = Empty THEN s.lastAccepted ELSE got
         IN Send(s, Chit(nodeID, rid, s.preference, preferenceAtHeight, s.lastAccepted))
    ELSE LET got == PreferenceAtHeight(s, requestedHeight)
             preferenceAtHeight == IF got = Empty THEN s.preference ELSE got
         IN Send(s, Chit(nodeID, rid, s.preference, preferenceAtHeight, s.lastAccepted))

sendChits(s, nodeID, rid, requestedHeight) ==
    IF s.stateSyncing \/ s.partialSync
    THEN LET got == GetBlockIDAtHeight(s, requestedHeight)
             acceptedAtHeight == IF got = Empty THEN s.lastAccepted ELSE got
         IN Send(s, Chit(nodeID, rid, s.lastAccepted, acceptedAtHeight, s.lastAccepted))
    ELSE IF requestedHeight < LastAcceptedHeight(s)
    THEN LET got == GetBlockIDAtHeight(s, requestedHeight)
             preferenceAtHeight == IF got = Empty THEN s.lastAccepted ELSE got
         IN Send(s, Chit(nodeID, rid, s.preference, preferenceAtHeight, s.lastAccepted))
    ELSE LET got == PreferenceAtHeight(s, requestedHeight)
             preferenceAtHeight == IF got = Empty THEN s.preference ELSE got
         IN Send(s, Chit(nodeID, rid, s.preference, preferenceAtHeight, s.lastAccepted))

----------------------------------------------------------------------------
(* The handlers.  Each returns the state it leaves, with its result in     *)
(* out.ret.                                                                *)

Return(s, err) == [Collect(s) EXCEPT !.out.ret = err]
ReturnResult(r) == Return(r.s, r.err)
\* return t.executeDeferredWork(ctx)
ReturnDeferred(s) == ReturnResult(executeDeferredWork(s))
\* if err != nil { return err }; return t.executeDeferredWork(ctx)
ReturnIssued(r) == IF r.err # Nil THEN Return(r.s, r.err) ELSE ReturnDeferred(r.s)

\* VM.ParseBlock; a VM may keep the block it parsed
VMParse(s, bytes) ==
    IF ParseBlock(bytes) # ErrParse /\ s.env.remember
    THEN [s EXCEPT !.vmBlocks = @ \cup {ParseBlock(bytes)}] ELSE s

\* a reply accepted whatever id it parses to
putAcceptsAnyBlock(blk, expectedBlkID) == blk # ErrParse

\* a Put that issues the block of a reply nobody asked for
PutUnsolicited(s, nodeID, rid, blkBytes) ==
    IF ParseBlock(blkBytes) = ErrParse
    THEN Return([s EXCEPT !.out.put.len = Len(blkBytes)], Nil)
    ELSE ReturnIssued(issueChain(
             deleteRequestOf([s EXCEPT !.out.put.len = Len(blkBytes)],
                             ParseBlock(blkBytes)),
             nodeID, ParseBlock(blkBytes), "pull"))

\* no reply is taken for the block that was asked for
putAcceptsNothing(blk, expectedBlkID) == FALSE

\* the reply is the block that was asked for: it parses, and to the expected id
putAccepts(blk, expectedBlkID) == blk # ErrParse /\ blk = expectedBlkID

\* Put with the reply parsed
PutParsed(s, nodeID, blkBytes, blk, expectedBlkID, issuedMetric) ==
    IF ~ putAccepts(blk, expectedBlkID)
    THEN ReturnDeferred(blockedAbandon(
             [s EXCEPT !.out.uselessPut = @ + Len(blkBytes)], expectedBlkID))
    ELSE ReturnIssued(issueChain(IF ~ shouldBlockBeQueuedForIssuance(s, blk)
                                 THEN [s EXCEPT !.out.uselessPut = @ + Len(blkBytes)]
                                 ELSE s,
                                 nodeID, blk, issuedMetric))

\* Put of a reply to an outstanding request, for expectedBlkID
PutRequested(s, nodeID, request, blkBytes, expectedBlkID) ==
    PutParsed(VMParse([s EXCEPT !.blkReqs = MapDel(@, request),
                                !.blkReqSourceMetric = MapDel(@, request),
                                !.out.put = [known |-> TRUE,
                                    request |-> request,
                                    expected |-> expectedBlkID,
                                    actual |-> ParseBlock(blkBytes),
                                    waiting |-> Len(s.blocked[expectedBlkID]),
                                    len |-> Len(blkBytes)]],
                      blkBytes),
              nodeID, blkBytes, ParseBlock(blkBytes), expectedBlkID,
              IF request \in DOMAIN s.blkReqSourceMetric
              THEN s.blkReqSourceMetric[request] ELSE "none")

Put(s, nodeID, rid, blkBytes) ==
    IF Request(nodeID, rid) \notin DOMAIN s.blkReqs
    THEN Return([s EXCEPT !.out.uselessPut = @ + Len(blkBytes),
                          !.out.put.len = Len(blkBytes)], Nil)
    ELSE PutRequested(s, nodeID, Request(nodeID, rid), blkBytes,
                      s.blkReqs[Request(nodeID, rid)])

\* a GetFailed that drops the request and leaves the jobs blocked on its block
GetFailedKeepingJobs(s, nodeID, rid) ==
    IF Request(nodeID, rid) \notin DOMAIN s.blkReqs THEN Return(s, Nil)
    ELSE ReturnDeferred([s EXCEPT !.blkReqs = MapDel(@, Request(nodeID, rid)),
                                  !.blkReqSourceMetric = MapDel(@, Request(nodeID, rid))])

\* GetFailed returning after the abandonment, without the deferred work
GetFailedUnfinished(s, nodeID, rid) ==
    LET request == Request(nodeID, rid)
    IN IF request \notin DOMAIN s.blkReqs THEN Return(s, Nil)
       ELSE Return(blockedAbandon(
                [s EXCEPT !.blkReqs = MapDel(@, request),
                          !.blkReqSourceMetric = MapDel(@, request)],
                s.blkReqs[request]), Nil)

GetFailed(s, nodeID, rid) ==
    LET request == Request(nodeID, rid)
    IN IF request \notin DOMAIN s.blkReqs THEN Return(s, Nil)
       ELSE ReturnDeferred(blockedAbandon(
                [s EXCEPT !.blkReqs = MapDel(@, request),
                          !.blkReqSourceMetric = MapDel(@, request)],
                s.blkReqs[request]))

\* PullQuery answering after it issued the block
PullQueryAnsweringLate(s, nodeID, rid, blkID, requestedHeight) ==
    ReturnIssued([issueID([s EXCEPT !.out.requestedHeight = requestedHeight,
                                    !.out.query = [nodeID |-> nodeID, requestID |-> rid]],
                          nodeID, blkID, "push")
                    EXCEPT !.s = sendChits(@, nodeID, rid, requestedHeight)])

PullQuery(s, nodeID, rid, blkID, requestedHeight) ==
    ReturnIssued(issueID(sendChits([s EXCEPT !.out.requestedHeight = requestedHeight,
                                             !.out.query = [nodeID |-> nodeID,
                                                            requestID |-> rid]],
                                   nodeID, rid, requestedHeight),
                         nodeID, blkID, "push"))

\* PushQuery with the block parsed
PushQueryParsed(s, nodeID, blkBytes, blk) ==
    IF blk = ErrParse THEN Return(s, Nil)
    ELSE ReturnIssued(issueChain(IF ~ shouldBlockBeQueuedForIssuance(s, blk)
                                 THEN [s EXCEPT !.out.uselessPush = @ + Len(blkBytes)]
                                 ELSE s,
                                 nodeID, blk, "push"))

PushQuery(s, nodeID, rid, blkBytes, requestedHeight) ==
    PushQueryParsed(VMParse(sendChits([s EXCEPT !.out.requestedHeight = requestedHeight,
                                                !.out.query = [nodeID |-> nodeID,
                                                               requestID |-> rid],
                                                !.out.parsed = ParseBlock(blkBytes) # ErrParse],
                                      nodeID, rid, requestedHeight),
                            blkBytes),
                    nodeID, blkBytes, ParseBlock(blkBytes))

\* the voter of a response is registered and the deferred work done
ChitsRegister(s, nodeID, rid, responseOptions, deps) ==
    ReturnDeferred(Register(
        [s EXCEPT !.out.voters = Append(@,
            [vdr |-> nodeID, requestID |-> rid,
             responseOptions |-> responseOptions, deps |-> deps])],
        VoterJob(nodeID, rid, responseOptions, deps)))

\* the voter waits on preferredID alone
ChitsAtHeightUnwaited(a, b, nodeID, rid, preferredID, preferredIDAtHeight) ==
    IF b.err # Nil THEN Return(b.s, b.err)
    ELSE ChitsRegister([b.s EXCEPT !.out.chits.waitPreferred = a.wait,
                                   !.out.chits.waitAtHeight = b.wait],
                       nodeID, rid,
                       IF preferredID # preferredIDAtHeight
                       THEN << preferredID, preferredIDAtHeight >>
                       ELSE << preferredID >>,
                       IF a.wait THEN {preferredID} ELSE {})

\* the response options with preferredIDAtHeight put first
ChitsAtHeightFirst(a, b, nodeID, rid, preferredID, preferredIDAtHeight) ==
    IF b.err # Nil THEN Return(b.s, b.err)
    ELSE ChitsRegister([b.s EXCEPT !.out.chits.waitPreferred = a.wait,
                                   !.out.chits.waitAtHeight = b.wait],
                       nodeID, rid,
                       IF preferredID # preferredIDAtHeight
                       THEN << preferredIDAtHeight, preferredID >>
                       ELSE << preferredID >>,
                       (IF a.wait THEN {preferredID} ELSE {})
                       \cup (IF b.wait THEN {preferredIDAtHeight} ELSE {}))

\* Chits with both ids issued: a and b are what issueID returned for them
ChitsAtHeight(a, b, nodeID, rid, preferredID, preferredIDAtHeight) ==
    IF b.err # Nil THEN Return(b.s, b.err)
    ELSE ChitsRegister([b.s EXCEPT !.out.chits.waitPreferred = a.wait,
                                   !.out.chits.waitAtHeight = b.wait],
                       nodeID, rid,
                       IF preferredID # preferredIDAtHeight
                       THEN << preferredID, preferredIDAtHeight >>
                       ELSE << preferredID >>,
                       (IF a.wait THEN {preferredID} ELSE {})
                       \cup (IF b.wait THEN {preferredIDAtHeight} ELSE {}))

\* Chits with preferredID issued
ChitsPreferred(a, nodeID, rid, preferredID, preferredIDAtHeight) ==
    IF a.err # Nil THEN Return(a.s, a.err)
    ELSE ChitsAtHeight(a,
                       IF preferredID # preferredIDAtHeight
                       THEN issueID(a.s, nodeID, preferredIDAtHeight, "pull")
                       ELSE [s |-> a.s, wait |-> FALSE, err |-> Nil],
                       nodeID, rid, preferredID, preferredIDAtHeight)

Chits(s, nodeID, rid, preferredID, preferredIDAtHeight, acceptedID) ==
    ChitsPreferred(issueID([s EXCEPT !.acceptedFrontiers =
                               MapPut(@, nodeID, acceptedID),
                               !.out.chits.nodeID = nodeID,
                               !.out.chits.requestID = rid,
                               !.out.chits.preferredID = preferredID,
                               !.out.chits.preferredIDAtHeight = preferredIDAtHeight,
                               !.out.chits.acceptedID = acceptedID],
                           nodeID, preferredID, "pull"),
                   nodeID, rid, preferredID, preferredIDAtHeight)

\* QueryFailed making no use of the accepted frontier of the peer
QueryFailedForgetful(s, nodeID, rid) == ChitsRegister(s, nodeID, rid, << >>, {})

QueryFailed(s, nodeID, rid) ==
    IF nodeID \in DOMAIN s.acceptedFrontiers
    THEN Chits(s, nodeID, rid, s.acceptedFrontiers[nodeID],
               s.acceptedFrontiers[nodeID], s.acceptedFrontiers[nodeID])
    ELSE ChitsRegister(s, nodeID, rid, << >>, {})

Notify(s, msg) ==
    IF msg = "PendingTxs"
    THEN ReturnDeferred([s EXCEPT !.pendingBuildBlocks = @ + 1, !.out.msg = msg])
    ELSE IF msg = "StateSyncDone"
    THEN Return([s EXCEPT !.stateSyncing = FALSE, !.out.msg = msg], Nil)
    ELSE Return([s EXCEPT !.out.msg = msg], Nil)

\* Gossip registering a poll for its pull query, as sendQuery does
GossipPolling(s) ==
    IF NumProcessing(s) # 0 THEN ReturnDeferred(s)
    ELSE IF s.env.connected = Empty THEN Return(s, Nil)
    ELSE Return(Send(PollsAdd([s EXCEPT !.requestID = @ + 1], s.requestID + 1,
                              << s.env.connected >>).s,
                     Msg("PullQuery", {s.env.connected}, s.requestID + 1, s.preference,
                         LastAcceptedHeight(s) + 1)), Nil)

\* Gossip sending its pull query whether or not a block is processing
GossipQuerying(s) ==
    IF s.env.connected = Empty THEN Return(s, Nil)
    ELSE IF NumProcessing(s) # 0
    THEN ReturnDeferred(Send([s EXCEPT !.requestID = @ + 1],
                             Msg("PullQuery", {s.env.connected}, s.requestID + 1,
                                 s.preference, LastAcceptedHeight(s) + 1)))
    ELSE Return(Send([s EXCEPT !.requestID = @ + 1],
                     Msg("PullQuery", {s.env.connected}, s.requestID + 1,
                         s.preference, LastAcceptedHeight(s) + 1)), Nil)

Gossip(s) ==
    IF NumProcessing(s) # 0 THEN ReturnDeferred(s)
    ELSE IF s.env.connected = Empty THEN Return(s, Nil)
    ELSE LET rid == s.requestID + 1
         IN Return(Send([s EXCEPT !.requestID = rid],
                        Msg("PullQuery", {s.env.connected}, rid, s.preference,
                            LastAcceptedHeight(s) + 1)), Nil)

RECURSIVE deliverOptions(_, _), deliverOptionsNext(_, _), deliverOptionsPushing(_, _)

\* the options of the last accepted block delivered with push = true
deliverOptionsPushing(s, options) ==
    IF options = << >> THEN [s |-> s, err |-> Nil]
    ELSE deliverOptionsNext(deliver(s, SelfNode, Head(options), TRUE, "built"),
                            Tail(options))

deliverOptions(s, options) ==
    IF options = << >> THEN [s |-> s, err |-> Nil]
    ELSE deliverOptionsNext(deliver(s, SelfNode, Head(options), FALSE, "built"),
                            Tail(options))

deliverOptionsNext(r, options) == IF r.err # Nil THEN r ELSE deliverOptions(r.s, options)

\* VM.LastAccepted: the highest block the VM holds
VMLastAccepted(s) ==
    CHOOSE b \in s.vmBlocks : \A c \in s.vmBlocks : Height(c) <= Height(b)

\* Start with consensus initialized: the state changes and the deferred work
StartNormalOp(s) ==
    IF s.env.startFail = "setState" THEN Return(s, "errSetState")
    ELSE ReturnDeferred([s EXCEPT !.vmState = "NormalOp"])

\* Start going on to NormalOp whatever setting the preference returned
StartPreferredAnyway(r) == StartNormalOp([r.s EXCEPT !.engineState = "NormalOp"])

StartPreferred(r) ==
    IF r.err # Nil THEN Return(r.s, r.err)
    ELSE StartNormalOp([r.s EXCEPT !.engineState = "NormalOp"])

StartFrom(s, lastAcceptedID) ==
    IF s.env.startFail = "lastAccepted" THEN Return(s, "errLastAccepted")
    ELSE IF s.env.startFail = "getBlock" \/ ~ getBlock(s, lastAcceptedID)
    THEN Return(s, "errGetBlock")
    ELSE IF s.env.startFail = "initialize" THEN Return(s, "errInitialize")
    ELSE StartPreferred(
             IF Options(lastAcceptedID) # << >>
             THEN deliverOptions([s EXCEPT !.lastAccepted = lastAcceptedID,
                                           !.processing = {},
                                           !.preference = lastAcceptedID,
                                           !.out.initialized = Append(@, lastAcceptedID)],
                                 Options(lastAcceptedID))
             ELSE VMSetPreference([s EXCEPT !.lastAccepted = lastAcceptedID,
                                            !.processing = {},
                                            !.preference = lastAcceptedID,
                                            !.out.initialized = Append(@, lastAcceptedID)],
                                  lastAcceptedID))

Start(s, startReqID) ==
    StartFrom([s EXCEPT !.requestID = startReqID], VMLastAccepted(s))

----------------------------------------------------------------------------
(* The environment of one handler call: what the collaborators answer *)

PartialSync == FALSE      \* Config.PartialSync

Env(failure, accept, remember, build, connected, startFail) ==
    [sampleOK |-> failure # "sample",
     sample |-> [i \in 1..K |-> "n1"],
     setPrefFails |-> failure = "setPreference",
     accept |-> accept,
     remember |-> remember,
     build |-> build,
     connected |-> connected,
     pruned |-> failure = "pruned",
     startFail |-> startFail]

Failures == {"none", "sample", "setPreference"}
BuildChoices == {"fail", "pref"}
QueryHeights == {0, 2}
\* the request id peers put on their queries
QueryRequestIDs == {9}
PutBytes == {Bytes(b) : b \in network} \cup {<< "junk" >>}

\* the request ids a peer answers with chits: those of the outstanding polls,
\* and one that is no poll's
ChitRequestIDs == {polls[i].requestID : i \in 1..Len(polls)} \cup {0}

\* the sets of blocks a run is about, with the blocks the VM holds at Start
Networks ==
    { [blocks |-> {"A", "B", "C"}, vm |-> {"G"}, keeps |-> FALSE, sync |-> FALSE],
      [blocks |-> {"A", "B", "C"}, vm |-> {"G"}, keeps |-> TRUE, sync |-> FALSE],
      [blocks |-> {"A", "B", "X"}, vm |-> {"G"}, keeps |-> FALSE, sync |-> FALSE],
      [blocks |-> {"A", "V", "W"}, vm |-> {"G"}, keeps |-> FALSE, sync |-> FALSE],
      [blocks |-> {"X", "L", "R"}, vm |-> {"G"}, keeps |-> FALSE, sync |-> FALSE],
      [blocks |-> {"L", "R", "A"}, vm |-> {"G", "X"}, keeps |-> FALSE, sync |-> FALSE],
      [blocks |-> {"L", "R", "A"}, vm |-> {"G", "X"}, keeps |-> FALSE, sync |-> TRUE] }

\* the environments that can make a difference to a handler of this state
Envs(parses, builds) ==
    {Env(f, a, r, b, Empty, "none") :
        f \in Failures,
        a \in IF polls = << >> THEN {FALSE} ELSE BOOLEAN,
        r \in {parses /\ vmKeepsParsed},
        b \in IF builds \/ pendingBuildBlocks > 0 THEN BuildChoices ELSE {"fail"}}

Cur(handler, env) ==
    [requestID |-> requestID, polls |-> polls, blkReqs |-> blkReqs,
     blkReqSourceMetric |-> blkReqSourceMetric, pending |-> pending,
     nonVerifieds |-> nonVerifieds, nonVerifiedCache |-> nonVerifiedCache,
     acceptedFrontiers |-> acceptedFrontiers, blocked |-> blocked, jobs |-> jobs,
     pendingBuildBlocks |-> pendingBuildBlocks, errs |-> errs,
     lastAccepted |-> lastAccepted, processing |-> processing,
     preference |-> preference, vmBlocks |-> vmBlocks, vmPreference |-> vmPreference,
     engineState |-> engineState, vmState |-> vmState, stateSyncing |-> stateSyncing,
     partialSync |-> PartialSync,
     out |-> [NoOut EXCEPT !.handler = handler],
     chain |-> << >>,
     env |-> env]

Commit(s) ==
    /\ s.requestID <= MaxRequestID
    /\ s.pendingBuildBlocks <= MaxPendingBuildBlocks
    /\ Cardinality(DOMAIN s.jobs) <= MaxBlockedJobs
    /\ requestID' = s.requestID
    /\ polls' = s.polls
    /\ blkReqs' = s.blkReqs
    /\ blkReqSourceMetric' = s.blkReqSourceMetric
    /\ pending' = s.pending
    /\ nonVerifieds' = s.nonVerifieds
    /\ nonVerifiedCache' = s.nonVerifiedCache
    /\ acceptedFrontiers' = s.acceptedFrontiers
    /\ blocked' = s.blocked
    /\ jobs' = s.jobs
    /\ pendingBuildBlocks' = s.pendingBuildBlocks
    /\ errs' = s.errs
    /\ lastAccepted' = s.lastAccepted
    /\ processing' = s.processing
    /\ preference' = s.preference
    /\ vmBlocks' = s.vmBlocks
    /\ vmPreference' = s.vmPreference
    /\ engineState' = s.engineState
    /\ vmState' = s.vmState
    /\ stateSyncing' = s.stateSyncing
    /\ network' = network
    /\ vmKeepsParsed' = vmKeepsParsed
    /\ handled' = handled + 1
    /\ out' = s.out

\* the engine is in normal operation and no handler has returned an error
Live == engineState = "NormalOp" /\ out.ret = Nil

\* the caller dispatches messages to a started engine, and stops for good
\* once a handler has returned an error
Running == Live /\ handled < MaxHandled

----------------------------------------------------------------------------
(* Init and the actions *)

Init ==
    /\ requestID = 0
    /\ polls = << >>
    /\ blkReqs = EmptyMap
    /\ blkReqSourceMetric = EmptyMap
    /\ pending = {}
    /\ nonVerifieds = EmptyMap
    /\ nonVerifiedCache = {}
    /\ acceptedFrontiers = EmptyMap
    /\ blocked = [b \in Blocks |-> << >>]
    /\ jobs = EmptyMap
    /\ pendingBuildBlocks = 0
    /\ errs = Nil
    /\ lastAccepted = Empty
    /\ processing = {}
    /\ preference = Empty
    /\ \E n \in Networks :
          /\ network = n.blocks /\ vmBlocks = n.vm /\ vmKeepsParsed = n.keeps
          /\ stateSyncing = n.sync
    /\ vmPreference = Empty
    /\ engineState = "Bootstrapping"
    /\ vmState = "Bootstrapping"
    /\ handled = 0
    /\ out = NoOut

StartAction ==
    /\ engineState = "Bootstrapping" /\ out.ret = Nil /\ handled < MaxHandled
    /\ \E startReqID \in {0},
          f \in Failures,
          sf \in {"none", "lastAccepted", "getBlock", "initialize", "setState"} :
         Commit(Start(Cur("Start", Env(f, FALSE, FALSE, "fail", Empty, sf)), startReqID))

PutAction ==
    /\ Running
    /\ \E nodeID \in Nodes, rid \in 1..MaxRequestID, bytes \in PutBytes :
         \E env \in IF Request(nodeID, rid) \in DOMAIN blkReqs
                    THEN Envs(TRUE, FALSE) ELSE {Env("none", FALSE, FALSE, "fail", Empty, "none")} :
            Commit(Put(Cur("Put", env), nodeID, rid, bytes))

GetFailedAction ==
    /\ Running
    /\ \E nodeID \in Nodes, rid \in 1..MaxRequestID :
         \E env \in IF Request(nodeID, rid) \in DOMAIN blkReqs
                    THEN Envs(FALSE, FALSE) ELSE {Env("none", FALSE, FALSE, "fail", Empty, "none")} :
            Commit(GetFailed(Cur("GetFailed", env), nodeID, rid))

\* the VM has pruned the block ids of the heights it has accepted
PrunedEnvs(parses, h) ==
    IF h <= Height(lastAccepted)
    THEN {Env("pruned", FALSE, parses /\ vmKeepsParsed, "fail", Empty, "none")}
    ELSE {}

PullQueryAction ==
    /\ Running
    /\ \E nodeID \in {"n2"}, rid \in QueryRequestIDs, blkID \in network,
          h \in QueryHeights :
         \E env \in Envs(FALSE, FALSE) \cup PrunedEnvs(FALSE, h) :
         Commit(PullQuery(Cur("PullQuery", env), nodeID, rid, blkID, h))

PushQueryAction ==
    /\ Running
    /\ \E nodeID \in {"n2"}, rid \in QueryRequestIDs, bytes \in PutBytes,
          h \in QueryHeights :
         \E env \in Envs(TRUE, FALSE) \cup PrunedEnvs(TRUE, h) :
         Commit(PushQuery(Cur("PushQuery", env), nodeID, rid, bytes, h))

ChitsAction ==
    /\ Running
    /\ \E nodeID \in {"n1"}, rid \in ChitRequestIDs, preferredID \in network,
          env \in Envs(FALSE, FALSE) :
         \E preferredIDAtHeight \in {preferredID, Parent[preferredID]} \cap network,
            acceptedID \in {lastAccepted} :
            Commit(Chits(Cur("Chits", env),
                         nodeID, rid, preferredID, preferredIDAtHeight, acceptedID))

QueryFailedAction ==
    /\ Running
    /\ \E nodeID \in Nodes, rid \in ChitRequestIDs, env \in Envs(FALSE, FALSE) :
         Commit(QueryFailed(Cur("QueryFailed", env), nodeID, rid))

NotifyAction ==
    /\ Running
    /\ \E msg \in {"PendingTxs", "StateSyncDone"}, env \in Envs(FALSE, TRUE) :
         Commit(Notify(Cur("Notify", env), msg))

GossipAction ==
    /\ Running
    /\ \E connected \in {Empty, "n1"}, f \in Failures, b \in BuildChoices :
         Commit(Gossip(Cur("Gossip", Env(f, FALSE, FALSE, b, connected, "none"))))

Next ==
    \/ StartAction
    \/ PutAction
    \/ GetFailedAction
    \/ PullQueryAction
    \/ PushQueryAction
    \/ ChitsAction
    \/ QueryFailedAction
    \/ NotifyAction
    \/ GossipAction

Spec == Init /\ [][Next]_vars

----------------------------------------------------------------------------
(* Properties of the engine *)

Requested(b) == HasValue(blkReqs, b)

\* the block is decided, as isBlockDecided sees it in the current state
Decided(b) ==
    \/ Height(b) <= Height(lastAccepted)
    \/ Height(b) = Height(lastAccepted) + 1 /\ Parent[b] # lastAccepted

\* getBlock finds the block
Known(b) == b \in pending \/ b \in nonVerifiedCache \/ b \in vmBlocks

Started == lastAccepted # Empty

\* no handler has returned an error: the caller goes on dispatching messages
Healthy == out.ret = Nil

\* the issuer jobs the blocker holds for block b
IssuersOf(b) == {j \in DOMAIN jobs : jobs[j].kind = "issuer" /\ jobs[j].blk = b}

\* C1: between handler invocations no block id is both a value of the request
\* table (an outstanding Get) and a key of the pending table.
C1_NoRequestedBlockIsPending ==
    Healthy => \A b \in pending : ~ Requested(b)

\* C2: when issueChain finds block B unissuable and its parent P neither
\* issuable nor known locally, it leaves B pending behind an issuer waiting
\* for P and sends the Get for P, the parent, to the given peer (unless a Get
\* for P is already outstanding); it sends none for B.
C2_IssueChainRequestsParent ==
    \A i \in 1..Len(out.requested) :
        LET e == out.requested[i]
        IN ~ e.parentRequested =>
              /\ Len(out.sent) > e.at
              /\ out.sent[e.at + 1] = Msg("Get", {e.nodeID}, out.sent[e.at + 1].requestID,
                                          e.parentID, 0)

\* C3: Consensus.Add is called on a block only when the block is not
\* processing and not decided by height, its parent is processing or is the
\* last accepted block, and the block verifies; so no child is added before
\* its parent.
C3_AddOnlyWhenIssuable ==
    \A i \in 1..Len(out.adds) :
        LET a == out.adds[i]
            h == Height(a.lastAccepted)
        IN /\ a.blk \notin a.processing
           /\ Height(a.blk) > h
           /\ ~ (Height(a.blk) = h + 1 /\ Parent[a.blk] # a.lastAccepted)
           /\ Parent[a.blk] \in a.processing \/ Parent[a.blk] = a.lastAccepted
           /\ Verify(a.blk)

\* a block was added on top of a block that was processing, not last accepted
C3_ChildAddedOnProcessingParent ==
    \E i \in 1..Len(out.adds) : Parent[out.adds[i].blk] \in out.adds[i].processing

\* C4: between handler invocations (no handler has failed) every pending block
\* is referenced by exactly one issuer job, whose dependencies contain the
\* block's parent, which is not issued; and every issuer job is for a pending
\* block.
C4_PendingHasOneIssuer ==
    Healthy =>
    /\ \A b \in pending :
          /\ Cardinality(IssuersOf(b)) = 1
          /\ \A j \in IssuersOf(b) :
                /\ Parent[b] \in jobs[j].deps
                /\ Parent[b] \notin processing
                /\ Parent[b] # lastAccepted
    /\ \A j \in DOMAIN jobs : jobs[j].kind = "issuer" => jobs[j].blk \in pending

\* two blocks wait, each behind its own issuer job
C4_TwoPendingBlocks ==
    Cardinality(pending) >= 2

\* C5: between handler invocations a pending block is not decided and not
\* processing, and one of its strict ancestors has an outstanding Get.
C5_PendingHasRequestedAncestor ==
    Healthy => \A b \in pending :
        /\ ~ Decided(b)
        /\ b \notin processing
        /\ \E a \in Blocks : a # b /\ IsDescendant(b, a) /\ Requested(a)

\* C6: between handler invocations a block id is in at most one of the states
\* outstanding Get request, pending, processing, decided.
C6_AtMostOneLifecycleState ==
    Started /\ Healthy =>
      \A b \in Blocks \ {lastAccepted} :
        Cardinality({k \in {"requested", "pending", "processing", "decided"} :
                        \/ k = "requested" /\ Requested(b)
                        \/ k = "pending" /\ b \in pending
                        \/ k = "processing" /\ b \in processing
                        \/ k = "decided" /\ Known(b) /\ Decided(b)}) <= 1

\* C7: the per-request metric tags are kept for exactly the requests of the
\* request table, whichever way a request is removed.
C7_TagIffRequest ==
    DOMAIN blkReqSourceMetric = DOMAIN blkReqs

\* a request was removed by value while another stays outstanding
C7_RequestCancelledByValue ==
    out.cancelled # << >> /\ DOMAIN blkReqs # {}

\* C8: when deliver returns without error, no block it added to consensus is
\* pending or has an outstanding Get.
C8_DeliveredBlocksAreClean ==
    \A i \in 1..Len(out.delivers) :
        LET d == out.delivers[i]
        IN d.err = Nil => d.pending = {} /\ d.requested = {}

\* deliver added a block that was pending, with a Get outstanding for it
C8_PendingBlockDelivered ==
    \E i \in 1..Len(out.delivers) :
        LET d == out.delivers[i]
        IN d.err = Nil /\ d.wasPending # {} /\ d.wasRequested # {}

\* C9: a Put for an outstanding request whose bytes do not parse, or parse to
\* another id than the expected H1, removes the request, abandons every job
\* blocked on H1, adds no block on the reply's behalf, and returns an error
\* only if a fatal one arose in the handler.
C9_MismatchedPutAbandons ==
    [][out'.handler = "Put" /\ out'.put.known /\ out'.put.actual # out'.put.expected =>
         LET H1 == out'.put.expected
         IN /\ out'.put.request \in DOMAIN blkReqs
            /\ out'.put.request \notin DOMAIN blkReqs'
            /\ ~ HasValue(blkReqs', H1)
            /\ blocked'[H1] = << >>
            /\ \A j \in SeqToSet(blocked[H1]) :
                  /\ j \in DOMAIN jobs' => H1 \notin jobs'[j].deps
                  /\ jobs[j].kind = "issuer" => jobs[j].blk \notin pending'
            /\ \A i \in 1..Len(out'.adds) : out'.adds[i].nodeID = SelfNode
            /\ out'.uselessPut = out'.put.len
            /\ out'.ret # Nil =>
                  /\ out'.ret = "errSetPreference"
                  /\ errs' # Nil \/ out'.builds > 0]_vars

\* a mismatched reply arrived while a job was blocked on the expected id
C9_MismatchedPutWithWaitingJob ==
    /\ out.handler = "Put" /\ out.put.known /\ out.put.actual # out.put.expected
    /\ out.put.waiting > 0
    /\ out.ret = Nil

\* C10: a Put for which no request is outstanding adds nothing to consensus,
\* leaves the request table, the pending table, the blocked jobs and consensus
\* as they were, counts its bytes as useless and returns no error.
C10_OrphanPutChangesNothing ==
    [][out'.handler = "Put" /\ ~ out'.put.known =>
         /\ out'.adds = << >>
         /\ blkReqs' = blkReqs /\ blkReqSourceMetric' = blkReqSourceMetric
         /\ pending' = pending
         /\ blocked' = blocked /\ jobs' = jobs
         /\ processing' = processing /\ lastAccepted' = lastAccepted
         /\ preference' = preference
         /\ out'.sent = << >>
         /\ out'.uselessPut = out'.put.len /\ out'.put.len > 0
         /\ out'.ret = Nil]_vars

\* an orphan Put arrived while requests, pending blocks and jobs existed
C10_OrphanPutInBusyEngine ==
    /\ out.handler = "Put" /\ ~ out.put.known /\ out.uselessPut > 0
    /\ DOMAIN blkReqs # {} /\ pending # {} /\ DOMAIN jobs # {}

----------------------------------------------------------------------------
(* GetFailed, Put and PushQuery compared *)

\* C11 as stated: GetFailed on an outstanding request leaves the request
\* table, the pending table, the blocked jobs and consensus as a Put on that
\* request with a block of another id does; a GetFailed for an unknown request
\* changes nothing.
C11_GetFailedIsAnyMismatchedPut ==
    LET EngineTables(s) ==
            [blkReqs |-> s.blkReqs, blkReqSourceMetric |-> s.blkReqSourceMetric,
             pending |-> s.pending, blocked |-> s.blocked, jobs |-> s.jobs,
             processing |-> s.processing, preference |-> s.preference,
             lastAccepted |-> s.lastAccepted]
    IN Live =>
        \A nodeID \in Nodes, rid \in 1..MaxRequestID :
            \A f \in Failures, a \in BOOLEAN, b \in BuildChoices :
                IF Request(nodeID, rid) \in DOMAIN blkReqs
                THEN \A bytes \in PutBytes :
                        /\ ParseBlock(bytes) # ErrParse
                        /\ ParseBlock(bytes) # blkReqs[Request(nodeID, rid)]
                        => EngineTables(GetFailed(
                               Cur("GetFailed", Env(f, a, FALSE, b, Empty, "none")),
                               nodeID, rid))
                           = EngineTables(Put(
                               Cur("Put", Env(f, a, vmKeepsParsed, b, Empty, "none")),
                               nodeID, rid, bytes))
                ELSE GetFailed(Cur("GetFailed", Env(f, a, FALSE, b, Empty, "none")),
                               nodeID, rid)
                     = Cur("GetFailed", Env(f, a, FALSE, b, Empty, "none"))

\* C11: GetFailed on an outstanding request leaves the request table, the
\* pending table, the blocked jobs and consensus as a Put on that request does
\* whose block has another id and whose parsing does not change what
\* VM.GetBlock returns; a GetFailed for an unknown request changes nothing and
\* returns no error.
C11_GetFailedIsAbandonment ==
    LET EngineTables(s) ==
            [blkReqs |-> s.blkReqs, blkReqSourceMetric |-> s.blkReqSourceMetric,
             pending |-> s.pending, blocked |-> s.blocked, jobs |-> s.jobs,
             processing |-> s.processing, preference |-> s.preference,
             lastAccepted |-> s.lastAccepted]
    IN Live =>
        \A nodeID \in Nodes, rid \in 1..MaxRequestID :
            \A f \in Failures, a \in BOOLEAN, b \in BuildChoices :
                IF Request(nodeID, rid) \in DOMAIN blkReqs
                THEN \A bytes \in PutBytes :
                        /\ ParseBlock(bytes) # ErrParse
                        /\ ParseBlock(bytes) # blkReqs[Request(nodeID, rid)]
                        /\ ~ vmKeepsParsed \/ ParseBlock(bytes) \in vmBlocks
                        => EngineTables(GetFailed(
                               Cur("GetFailed", Env(f, a, FALSE, b, Empty, "none")),
                               nodeID, rid))
                           = EngineTables(Put(
                               Cur("Put", Env(f, a, vmKeepsParsed, b, Empty, "none")),
                               nodeID, rid, bytes))
                ELSE GetFailed(Cur("GetFailed", Env(f, a, FALSE, b, Empty, "none")),
                               nodeID, rid)
                     = Cur("GetFailed", Env(f, a, FALSE, b, Empty, "none"))

\* a GetFailed was handled and a request with a job blocked on its block is
\* still outstanding, for which a mismatched reply exists whose parsing does
\* not change what VM.GetBlock returns
C11_GetFailedWithWaitingJob ==
    /\ Live
    /\ out.handler = "GetFailed" /\ out.deferred > 0
    /\ \E req \in DOMAIN blkReqs :
          /\ blocked[blkReqs[req]] # << >>
          /\ \E bytes \in PutBytes :
                /\ ParseBlock(bytes) # ErrParse /\ ParseBlock(bytes) # blkReqs[req]
                /\ ~ vmKeepsParsed \/ ParseBlock(bytes) \in vmBlocks

\* C12: where a Get for block X is outstanding to peer p, a Put from p on that
\* request with the bytes of X leaves consensus (the processing blocks, the
\* preference, the last accepted block) as a PushQuery from p with the same
\* bytes does.
C12_PutIsPushQuery ==
    LET ConsensusState(s) ==
            [processing |-> s.processing, preference |-> s.preference,
             lastAccepted |-> s.lastAccepted]
    IN Live =>
        \A req \in DOMAIN blkReqs :
            \A f \in Failures, a \in BOOLEAN, b \in BuildChoices,
               rid \in QueryRequestIDs, h \in QueryHeights :
                ConsensusState(Put(Cur("Put", Env(f, a, vmKeepsParsed, b, Empty, "none")),
                                   req[1], req[2], Bytes(blkReqs[req])))
                = ConsensusState(PushQuery(
                      Cur("PushQuery", Env(f, a, vmKeepsParsed, b, Empty, "none")),
                      req[1], rid, Bytes(blkReqs[req]), h))

\* a Get is outstanding for a block that the Put of its bytes adds to consensus
C12_RequestedBlockIsIssuable ==
    /\ Live
    /\ \E req \in DOMAIN blkReqs :
          Put(Cur("Put", Env("none", FALSE, vmKeepsParsed, "fail", Empty, "none")),
              req[1], req[2], Bytes(blkReqs[req])).processing # processing

----------------------------------------------------------------------------
(* The backfill of a linear chain *)

\* C13: with G last accepted and the chain G <- A <- B <- C unknown, a
\* PushQuery of C from a peer sends exactly one Get, for B and to that peer, and
\* leaves C pending on {B}; and when the replies have left B and C pending on A,
\* the Put of A adds A, B and C to consensus in that order and leaves none of
\* them pending or requested.
C13_LinearChainBackfill ==
    [][/\ (/\ lastAccepted = "G" /\ processing = {} /\ vmBlocks = {"G"}
           /\ pending = {} /\ nonVerifiedCache = {} /\ DOMAIN blkReqs = {}
           /\ out'.handler = "PushQuery" /\ out'.ret = Nil
           /\ pending' = {"C"})
          => /\ Cardinality({i \in 1..Len(out'.sent) : out'.sent[i].type = "Get"}) = 1
             /\ \A i \in 1..Len(out'.sent) :
                   out'.sent[i].type = "Get"
                   => out'.sent[i].blk = "B" /\ out'.sent[i].to = {"n2"}
             /\ \A j \in DOMAIN jobs' :
                   jobs'[j].kind = "issuer" /\ jobs'[j].blk = "C" => jobs'[j].deps = {"B"}
       /\ (/\ lastAccepted = "G" /\ processing = {} /\ pending = {"B", "C"}
           /\ out'.handler = "Put" /\ out'.put.known /\ out'.ret = Nil
           /\ out'.put.expected = "A" /\ out'.put.actual = "A")
          => /\ [i \in 1..Len(out'.adds) |-> out'.adds[i].blk] = << "A", "B", "C" >>
             /\ pending' = {}
             /\ \A b \in {"A", "B", "C"} : ~ HasValue(blkReqs', b)]_vars

----------------------------------------------------------------------------
(* Chits and the voter *)

\* C14: the voter of a Chits message has the response options [preferred-id]
\* when preferred-id = preferred-id-at-height and [preferred-id,
\* preferred-id-at-height], in this order, otherwise: never more than two, and
\* never preferred-id-at-height first. (Chits, or QueryFailed standing in for
\* them, log the ids they were given.)
C14_ResponseOptionsInOrder ==
    \A i \in 1..Len(out.voters) :
        out.chits.preferredID # Empty =>
        /\ out.voters[i].responseOptions =
               IF out.chits.preferredID = out.chits.preferredIDAtHeight
               THEN << out.chits.preferredID >>
               ELSE << out.chits.preferredID, out.chits.preferredIDAtHeight >>
        /\ Len(out.voters[i].responseOptions) <= 2
        /\ out.voters[i].responseOptions[1] = out.chits.preferredID

\* chits with two different ids were handled and their voter registered
C14_ChitsWithTwoOptions ==
    /\ out.handler = "Chits" /\ out.ret = Nil
    /\ out.chits.preferredID # Empty
    /\ \E i \in 1..Len(out.voters) : Len(out.voters[i].responseOptions) = 2

\* C15: chits handled without error register exactly one voter, for the peer
\* and the request id of the chits, whose dependencies are exactly the ids
\* among preferred-id and preferred-id-at-height for which issueID returned
\* true; a voter without dependencies runs within the same handler.
C15_OneVoterWithWaitedDeps ==
    out.chits.preferredID # Empty /\ out.ret = Nil =>
        /\ Len(out.voters) = 1
        /\ \A i \in 1..Len(out.voters) :
              /\ out.voters[i].vdr = out.chits.nodeID
              /\ out.voters[i].requestID = out.chits.requestID
              /\ out.voters[i].deps
                 = (IF out.chits.waitPreferred THEN {out.chits.preferredID} ELSE {})
                   \cup (IF out.chits.waitAtHeight
                         THEN {out.chits.preferredIDAtHeight} ELSE {})
              /\ out.voters[i].deps = {} =>
                    \E k \in 1..Len(out.votes) :
                        /\ out.votes[k].vdr = out.chits.nodeID
                        /\ out.votes[k].requestID = out.chits.requestID

\* chits with two different ids, one to wait on and one not, were handled
C15_VoterWaitsOnOneOfTwo ==
    /\ out.handler = "Chits" /\ out.ret = Nil
    /\ out.chits.preferredID # out.chits.preferredIDAtHeight
    /\ out.chits.waitPreferred /\ ~ out.chits.waitAtHeight
    /\ Len(out.voters) = 1

\* C16: the vote a voter applies to the poll of its request id is what
\* getProcessingAncestor returns for the first of its response options for
\* which it succeeds, the options taken in order, and the null vote when it
\* fails for all of them; no option after a successful one is tried.
C16_FirstProcessingAncestorWins ==
    \A k \in 1..Len(out.votes) :
        LET v == out.votes[k]
            FailedLabels == {"missing", "decided"}
        IN IF v.index = 0
           THEN /\ v.vote = Empty
                /\ Len(v.labels) = Len(v.options)
                /\ \A i \in 1..Len(v.labels) : v.labels[i] \in FailedLabels
           ELSE /\ v.index \in 1..Len(v.options)
                /\ Len(v.labels) = v.index
                /\ \A i \in 1..(v.index - 1) : v.labels[i] \in FailedLabels
                /\ v.labels[v.index] \notin FailedLabels
                /\ v.vote \in v.processing
                /\ IsDescendant(v.options[v.index], v.vote)

\* a voter with two response options voted by the second, the first having no
\* processing ancestor
C16_SecondOptionUsed ==
    \E k \in 1..Len(out.votes) :
        Len(out.votes[k].options) = 2 /\ out.votes[k].index = 2

----------------------------------------------------------------------------
(* getProcessingAncestor *)

\* the engine between two handlers, its collaborators not failing
Idle == Cur("none", Env("none", FALSE, FALSE, "fail", Empty, "none"))

\* C17: getProcessingAncestor(v) succeeds only with a block that consensus is
\* processing and that is v or an ancestor of v; it fails only when a block on
\* the way from v cannot be fetched (missing) or has a height of at most the
\* last accepted height + 1 (decided). When the non-verified forest holds
\* x -> y -> z and z is processing, getProcessingAncestor(x) is z.
C17_ProcessingAncestor ==
    Started =>
        /\ \A v \in Blocks :
              CASE getProcessingAncestor(Idle, v).label \in {"self", "ancestor"} ->
                     /\ getProcessingAncestor(Idle, v).ok
                     /\ getProcessingAncestor(Idle, v).id \in processing
                     /\ IsDescendant(v, getProcessingAncestor(Idle, v).id)
                     /\ getProcessingAncestor(Idle, v).label = "self"
                           <=> getProcessingAncestor(Idle, v).id = v
                [] getProcessingAncestor(Idle, v).label = "missing" ->
                     /\ ~ getProcessingAncestor(Idle, v).ok
                     /\ \E w \in Blocks :
                           IsDescendant(v, w) /\ ~ Known(w) /\ w \notin processing
                [] getProcessingAncestor(Idle, v).label = "decided" ->
                     /\ ~ getProcessingAncestor(Idle, v).ok
                     /\ \E w \in Blocks :
                           /\ IsDescendant(v, w) /\ Known(w) /\ w \notin processing
                           /\ Height(w) <= Height(lastAccepted) + 1
                [] OTHER -> FALSE
        /\ \A x \in DOMAIN nonVerifieds :
              /\ nonVerifieds[x] \in DOMAIN nonVerifieds
              /\ nonVerifieds[nonVerifieds[x]] \in processing
              => getProcessingAncestor(Idle, x)
                 = [ok |-> TRUE, id |-> nonVerifieds[nonVerifieds[x]], label |-> "ancestor"]

\* the non-verified forest holds x -> y -> z with z processing
C17_TwoNonVerifiedsOverProcessing ==
    \E x \in DOMAIN nonVerifieds :
        /\ nonVerifieds[x] \in DOMAIN nonVerifieds
        /\ nonVerifieds[nonVerifieds[x]] \in processing

----------------------------------------------------------------------------
(* sendChits *)

\* C18: the Chits sent in reply to a query at height h are (last accepted,
\* accepted at h or last accepted, last accepted) when state syncing or partially
\* syncing, else (preference, accepted at h or last accepted, last accepted)
\* when h is below the last accepted height, else (preference, preference at h
\* or preference, last accepted); a VM that cannot answer for the height, or a
\* consensus without a preference at it, only makes the fallback be sent.
\* Both for sendChits on every input and for the replies of PullQuery and
\* PushQuery, which are sent whatever the handler then returns.
C18_ChitsByCase ==
    /\ [](
        LET ChitsSent(o) == SelectSeq(o.sent, LAMBDA m : m.type = "Chits")
            \* the accepted block of height h as the VM answers for it, or the last
            \* accepted block when the VM fails to
            AcceptedAtHeightOrLastAccepted(pruned, h) ==
                IF h <= Height(lastAccepted) /\ ~ pruned
                THEN CHOOSE w \in Blocks : IsDescendant(lastAccepted, w) /\ Height(w) = h
                ELSE lastAccepted
            \* the processing block of height h on the preferred chain, or the
            \* preference when there is none
            PreferenceAtHeightOrPreference(h) ==
                IF \E w \in processing : IsDescendant(preference, w) /\ Height(w) = h
                THEN CHOOSE w \in processing : IsDescendant(preference, w) /\ Height(w) = h
                ELSE preference
            \* the reply to a query at height h that the three cases state
            ExpectedChits(unverifying, pruned, h) ==
                IF unverifying
                THEN Chit("n2", 9, lastAccepted,
                          AcceptedAtHeightOrLastAccepted(pruned, h), lastAccepted)
                ELSE IF h < Height(lastAccepted)
                THEN Chit("n2", 9, preference,
                          AcceptedAtHeightOrLastAccepted(pruned, h), lastAccepted)
                ELSE Chit("n2", 9, preference,
                          PreferenceAtHeightOrPreference(h), lastAccepted)
        IN Live =>
               \A h \in 0..3, sync \in BOOLEAN, partial \in BOOLEAN, pruned \in BOOLEAN :
                   ChitsSent(sendChits([Idle EXCEPT !.stateSyncing = sync,
                                                    !.partialSync = partial,
                                                    !.env.pruned = pruned],
                                       "n2", 9, h).out)
                   = << ExpectedChits(sync \/ partial, pruned, h) >>)
    /\ [][
        LET ChitsSent(o) == SelectSeq(o.sent, LAMBDA m : m.type = "Chits")
            \* the accepted block of height h as the VM answers for it, or the last
            \* accepted block when the VM fails to
            AcceptedAtHeightOrLastAccepted(pruned, h) ==
                IF h <= Height(lastAccepted) /\ ~ pruned
                THEN CHOOSE w \in Blocks : IsDescendant(lastAccepted, w) /\ Height(w) = h
                ELSE lastAccepted
            \* the processing block of height h on the preferred chain, or the
            \* preference when there is none
            PreferenceAtHeightOrPreference(h) ==
                IF \E w \in processing : IsDescendant(preference, w) /\ Height(w) = h
                THEN CHOOSE w \in processing : IsDescendant(preference, w) /\ Height(w) = h
                ELSE preference
            \* the reply to a query at height h that the three cases state
            ExpectedChits(unverifying, pruned, h) ==
                IF unverifying
                THEN Chit("n2", 9, lastAccepted,
                          AcceptedAtHeightOrLastAccepted(pruned, h), lastAccepted)
                ELSE IF h < Height(lastAccepted)
                THEN Chit("n2", 9, preference,
                          AcceptedAtHeightOrLastAccepted(pruned, h), lastAccepted)
                ELSE Chit("n2", 9, preference,
                          PreferenceAtHeightOrPreference(h), lastAccepted)
        IN out'.handler \in {"PullQuery", "PushQuery"} =>
               \E pruned \in BOOLEAN :
                   ChitsSent(out')
                   = << ExpectedChits(stateSyncing \/ PartialSync, pruned,
                                      out'.requestedHeight) >>
       ]_vars

\* a state-syncing node has answered a query with its last accepted block when
\* it prefers another, and with the accepted block of the requested height
C18_StateSyncingReply ==
    /\ stateSyncing /\ out.handler = "PullQuery"
    /\ \E i \in 1..Len(out.sent) :
          /\ out.sent[i].type = "Chits"
          /\ out.sent[i].blk = lastAccepted /\ out.sent[i].blk # preference
          /\ out.sent[i].atHeight # lastAccepted

----------------------------------------------------------------------------
(* Gossip *)

\* C19 as stated: Gossip invoked while a block is processing emits no
\* SendPullQuery, no SendPushQuery and no SendGet, whatever the pending build
\* requests and the outstanding polls.
C19_GossipSendsNothing ==
    [][out'.handler = "Gossip" /\ processing # {}
       => \A i \in 1..Len(out'.sent) :
             out'.sent[i].type \notin {"PullQuery", "PushQuery", "Get"}]_vars

\* C19, amended: Gossip invoked while a block is processing emits no
\* SendPushQuery and no SendGet, and no query of its own; it emits SendPullQuery
\* only as the repolls of the deferred work: when fewer polls than
\* ConcurrentRepolls are outstanding, at most as many as are lacking, each for
\* the preference and with a poll and a request id of its own.
C19_GossipSendsRepollsOnly ==
    [][out'.handler = "Gossip" /\ processing # {}
       => /\ \A i \in 1..Len(out'.sent) : out'.sent[i].type = "PullQuery"
          /\ out'.deferred = 1 /\ out'.builds = 0
          /\ Len(polls) >= ConcurrentRepolls => out'.sent = << >>
          /\ Len(polls) < ConcurrentRepolls
                => Len(out'.sent) <= ConcurrentRepolls - Len(polls)
          /\ \A i \in 1..Len(out'.sent) :
                /\ out'.sent[i].blk = preference
                /\ out'.sent[i].requestID \in (requestID + 1)..requestID'
                /\ \E k \in 1..Len(polls') : polls'[k].requestID = out'.sent[i].requestID
                /\ \A k \in 1..Len(polls) : polls[k].requestID # out'.sent[i].requestID
      ]_vars

\* Gossip ran the deferred work and a repoll was sent
C19_GossipRepolled ==
    /\ out.handler = "Gossip" /\ out.deferred = 1 /\ out.ret = Nil
    /\ \E i \in 1..Len(out.sent) : out.sent[i].type = "PullQuery"

\* C20: Gossip invoked while no block is processing and a connected validator
\* can be sampled sends exactly one SendPullQuery, to that one validator, for
\* the preference, with the height last accepted height + 1 and a request id
\* that no poll and no block request uses; it registers no poll and leaves the
\* request table, the pending table and the blocked jobs as they were. Gossip
\* sends nothing else, and nothing when no validator is connected.
C20_GossipPullsOnce ==
    /\ [](Live /\ processing = {} =>
            \A f \in Failures, b \in BuildChoices, vdrID \in Nodes :
                /\ Gossip(Cur("Gossip", Env(f, FALSE, FALSE, b, vdrID, "none"))).out.sent
                   = << Msg("PullQuery", {vdrID}, requestID + 1, preference,
                            Height(lastAccepted) + 1) >>
                /\ Gossip(Cur("Gossip", Env(f, FALSE, FALSE, b, vdrID, "none"))).out.ret = Nil)
    /\ [][out'.handler = "Gossip" /\ processing = {}
          => /\ out'.sent \in {<< >>} \cup {<< Msg("PullQuery", {vdrID}, requestID + 1, preference,
                                Height(lastAccepted) + 1) >> : vdrID \in Nodes}
             /\ out'.sent # << >>
                   => /\ requestID' = requestID + 1
                      /\ \A k \in 1..Len(polls) : polls[k].requestID # requestID'
                      /\ \A req \in DOMAIN blkReqs : req[2] # requestID'
             /\ polls' = polls /\ blkReqs' = blkReqs
             /\ blkReqSourceMetric' = blkReqSourceMetric
             /\ pending' = pending /\ blocked' = blocked /\ jobs' = jobs
             /\ processing' = processing /\ preference' = preference
             /\ out'.ret = Nil /\ out'.deferred = 0
        ]_vars

\* Gossip has sent its pull query while a block was pending on a requested one
C20_GossipWithPendingBlock ==
    /\ out.handler = "Gossip" /\ out.deferred = 0 /\ processing = {}
    /\ Len(out.sent) = 1 /\ pending # {} /\ DOMAIN blkReqs # {}

----------------------------------------------------------------------------
(* The deferred work and the error latch *)

\* C21 as stated: every call of a handler ends by executing
\* executeDeferredWork, whatever branch the handler takes.
C21_EveryHandlerDefers ==
    [][out'.deferred >= 1]_vars

\* C21, amended: executeDeferredWork runs, once, at the end of every handler
\* call that returns no error from a branch that can have changed the engine:
\* Put and GetFailed on an outstanding request, PullQuery, PushQuery with bytes
\* that parse, Chits, QueryFailed, Notify(PendingTxs), Gossip while a block is
\* processing, and Start. It does not run in a call that returns at once:
\* a Put or GetFailed for no outstanding request, a PushQuery whose bytes do
\* not parse, a Notify of another message, a Gossip with nothing processing;
\* nor in a call that returns the error of issuing a block or of starting.
C21_HandlersDeferUnlessReturningEarly ==
    [][LET ReturnsAtOnce ==
               \/ out'.handler = "Put" /\ ~ out'.put.known
               \/ out'.handler = "GetFailed" /\ DOMAIN blkReqs \subseteq DOMAIN blkReqs'
               \/ out'.handler = "PushQuery" /\ ~ out'.parsed
               \/ out'.handler = "Notify" /\ out'.msg # "PendingTxs"
               \/ out'.handler = "Gossip" /\ processing = {}
       IN /\ out'.deferred \in {0, 1}
          /\ ReturnsAtOnce => out'.deferred = 0 /\ out'.ret = Nil
          /\ ~ ReturnsAtOnce /\ out'.ret = Nil => out'.deferred = 1
          /\ out'.deferred = 0 /\ out'.ret # Nil
                => out'.handler \in {"Put", "PullQuery", "PushQuery", "Chits",
                                     "QueryFailed", "Start"}
      ]_vars

\* a GetFailed for an outstanding request has run the deferred work
C21_GetFailedDeferred ==
    out.handler = "GetFailed" /\ out.deferred = 1 /\ out.ret = Nil

\* C22 as stated: once the error latch is set it is never cleared, and every
\* later handler call returns the latched error, builds no block and sends no
\* repoll query.
C22_LatchedErrorAlwaysReturned ==
    engineState = "NormalOp" /\ errs # Nil =>
        \A f \in Failures, a \in BOOLEAN, b \in BuildChoices, vdrID \in {Empty, "n1"} :
            LET env == Env(f, a, vmKeepsParsed, b, vdrID, "none")
                \* the latch is kept, nothing is built, every query sent is that
                \* of a block added in this call, and the call returns nil
                \* (atOnce) or the latched error
                Latched(r, atOnce) ==
                    /\ r.errs = errs
                    /\ r.out.builds = 0
                    /\ \A i \in 1..Len(r.out.sent) :
                          r.out.sent[i].type \in {"PullQuery", "PushQuery"}
                          => \E k \in 1..Len(r.out.adds) :
                                r.out.adds[k].blk = r.out.sent[i].blk
                    /\ r.out.ret = IF atOnce THEN Nil ELSE errs
            IN /\ \A nodeID \in Nodes, rid \in 1..MaxRequestID :
                     /\ \A bytes \in PutBytes :
                           Latched(Put(Cur("Put", env), nodeID, rid, bytes),
                                   FALSE)
                     /\ Latched(GetFailed(Cur("GetFailed", env), nodeID, rid),
                                FALSE)
               /\ \A h \in QueryHeights :
                     /\ \A blkID \in network :
                           Latched(PullQuery(Cur("PullQuery", env), "n2", 9, blkID, h), FALSE)
                     /\ \A bytes \in PutBytes :
                           Latched(PushQuery(Cur("PushQuery", env), "n2", 9, bytes, h),
                                   FALSE)
               /\ \A rid \in ChitRequestIDs :
                     /\ \A preferredID \in network :
                           Latched(Chits(Cur("Chits", env), "n1", rid, preferredID,
                                         preferredID, lastAccepted), FALSE)
                     /\ \A nodeID \in Nodes :
                           Latched(QueryFailed(Cur("QueryFailed", env), nodeID, rid), FALSE)
               /\ \A msg \in {"PendingTxs", "StateSyncDone"} :
                     Latched(Notify(Cur("Notify", env), msg), FALSE)
               /\ Latched(Gossip(Cur("Gossip", env)), FALSE)

\* C22, amended: once the error latch is set it is never cleared, and no later
\* handler call builds a block or sends a repoll query (the queries it sends
\* are those of blocks it adds); every later call that does not return at once
\* returns the latched error. The calls that return at once return nil: a Put
\* or GetFailed for which no request is outstanding, a PushQuery whose bytes do
\* not parse, a Notify of another message than PendingTxs, and a Gossip with
\* nothing processing, which still sends its pull query.
C22_LatchedErrorReturnedByDeferredWork ==
    engineState = "NormalOp" /\ errs # Nil =>
        \A f \in Failures, a \in BOOLEAN, b \in BuildChoices, vdrID \in {Empty, "n1"} :
            LET env == Env(f, a, vmKeepsParsed, b, vdrID, "none")
                \* the latch is kept, nothing is built, every query sent is that
                \* of a block added in this call, and the call returns nil
                \* (atOnce) or the latched error
                Latched(r, atOnce) ==
                    /\ r.errs = errs
                    /\ r.out.builds = 0
                    /\ \A i \in 1..Len(r.out.sent) :
                          r.out.sent[i].type \in {"PullQuery", "PushQuery"}
                          => \E k \in 1..Len(r.out.adds) :
                                r.out.adds[k].blk = r.out.sent[i].blk
                    /\ r.out.ret = IF atOnce THEN Nil ELSE errs
            IN /\ \A nodeID \in Nodes, rid \in 1..MaxRequestID :
                     /\ \A bytes \in PutBytes :
                           Latched(Put(Cur("Put", env), nodeID, rid, bytes),
                                   Request(nodeID, rid) \notin DOMAIN blkReqs)
                     /\ Latched(GetFailed(Cur("GetFailed", env), nodeID, rid),
                                Request(nodeID, rid) \notin DOMAIN blkReqs)
               /\ \A h \in QueryHeights :
                     /\ \A blkID \in network :
                           Latched(PullQuery(Cur("PullQuery", env), "n2", 9, blkID, h), FALSE)
                     /\ \A bytes \in PutBytes :
                           Latched(PushQuery(Cur("PushQuery", env), "n2", 9, bytes, h),
                                   ParseBlock(bytes) = ErrParse)
               /\ \A rid \in ChitRequestIDs :
                     /\ \A preferredID \in network :
                           Latched(Chits(Cur("Chits", env), "n1", rid, preferredID,
                                         preferredID, lastAccepted), FALSE)
                     /\ \A nodeID \in Nodes :
                           Latched(QueryFailed(Cur("QueryFailed", env), nodeID, rid), FALSE)
               /\ \A msg \in {"PendingTxs", "StateSyncDone"} :
                     Latched(Notify(Cur("Notify", env), msg), msg # "PendingTxs")
               /\ IF processing = {}
                  THEN /\ Gossip(Cur("Gossip", env)).errs = errs
                       /\ Gossip(Cur("Gossip", env)).out.builds = 0
                       /\ Gossip(Cur("Gossip", env)).out.ret = Nil
                  ELSE Latched(Gossip(Cur("Gossip", env)), FALSE)

\* the latch is set while a build request is pending or a repoll is due
C22_LatchSetWithWorkDue ==
    /\ engineState = "NormalOp" /\ errs # Nil /\ out.ret = errs
    /\ processing # {} /\ polls = << >>

\* C23: the conditions that are not fatal never make a handler return an
\* error nor set the error latch: an unexpected or mismatched Put, an unknown
\* GetFailed, bytes that do not parse, a block whose Verify fails, a failed
\* VM.BuildBlock, a failed sampling of validators, a poll that cannot be
\* registered.  A handler other than Start in which no call of Consensus.Add or
\* VM.SetPreference failed returns nil and leaves the latch unset.
C23_OnlyFatalErrorsAreReturned ==
    [][out'.handler \notin {"none", "Start"} /\ ~ out'.fatal
       => out'.ret = Nil /\ errs' = Nil]_vars

\* a handler in which VM.BuildBlock failed, or a block failed verification
\* and was put aside, has returned nil
C23_FailedBuildReturnedNil ==
    /\ out.handler = "Notify" /\ out.builds = 1 /\ out.adds = << >>
    /\ out.ret = Nil /\ errs = Nil /\ pendingBuildBlocks = 0

----------------------------------------------------------------------------
(* Building blocks *)

\* C24: the counter of pending build requests is never negative; a handler
\* changes it by one up for a Notify(PendingTxs) and one down for each call of
\* VM.BuildBlock, failed or not; VM.BuildBlock is called only with the counter
\* positive and fewer than OptimalProcessing blocks processing.  So the calls of
\* VM.BuildBlock never outnumber the Notify(PendingTxs) received.
C24_BuildsConsumePendingRequests ==
    /\ [](pendingBuildBlocks >= 0)
    /\ [][/\ pendingBuildBlocks'
             = pendingBuildBlocks + (IF out'.msg = "PendingTxs" THEN 1 ELSE 0)
               - out'.builds
          /\ Len(out'.buildsAt) = out'.builds
          /\ \A i \in 1..Len(out'.buildsAt) :
                /\ out'.buildsAt[i].counter > 0
                /\ out'.buildsAt[i].processing < OptimalProcessing
                /\ out'.buildsAt[i].counter
                   = pendingBuildBlocks + (IF out'.msg = "PendingTxs" THEN 1 ELSE 0)
                     - (i - 1)
          /\ \A i \in 1..Len(out'.adds) :
                out'.adds[i].issuedMetric = "built"
                => Cardinality(out'.adds[i].processing) < OptimalProcessing
       ]_vars

\* two build requests were pending and a handler has called VM.BuildBlock
\* twice
C24_TwoBuildsInOneHandler ==
    out.builds = 2 /\ pendingBuildBlocks = 0 /\ out.ret = Nil

\* C25: a block built locally is delivered with push = true.  A
\* Notify(PendingTxs) received with no build request pending and fewer than
\* OptimalProcessing blocks processing (so each of two in a row, starting from
\* none processing, OptimalProcessing being 2) calls VM.BuildBlock exactly
\* once; and a built block that is added and becomes the preference is
\* announced by exactly one PushQuery, sent after it was added and before any
\* other query for it, when validators could be sampled and the handler
\* returned no error.  In every handler but Start (which delivers the options
\* of an oracle block as built, with push = false) a built block is added on
\* the node's own behalf and gets at most one PushQuery, and no query before
\* that.
C25_BuiltBlocksArePushed ==
    /\ [](Live /\ pendingBuildBlocks = 0
            /\ Cardinality(processing) < OptimalProcessing =>
           \A f \in Failures, a \in BOOLEAN :
               LET Built(r) ==
                       /\ r.out.builds = 1
                       /\ \A k \in 1..Len(r.out.adds) :
                             /\ r.out.adds[k].issuedMetric = "built"
                             /\ r.out.adds[k].blk = r.preference
                             /\ r.out.ret = Nil /\ f # "sample"
                             => /\ Cardinality({i \in 1..Len(r.out.sent) :
                                       /\ r.out.sent[i].type = "PushQuery"
                                       /\ r.out.sent[i].blk = r.out.adds[k].blk}) = 1
                                /\ \A i \in 1..Len(r.out.sent) :
                                      /\ r.out.sent[i].type = "PullQuery"
                                      /\ r.out.sent[i].blk = r.out.adds[k].blk
                                      => \E j \in 1..(i - 1) :
                                            /\ r.out.sent[j].type = "PushQuery"
                                            /\ r.out.sent[j].blk = r.out.adds[k].blk
               IN Built(Notify(Cur("Notify", Env(f, a, FALSE, "pref", Empty, "none")),
                               "PendingTxs")))
    /\ [][\A k \in 1..Len(out'.adds) :
             out'.adds[k].issuedMetric = "built" /\ out'.handler # "Start"
             => /\ out'.adds[k].nodeID = SelfNode
                /\ Cardinality({i \in 1..Len(out'.sent) :
                       /\ out'.sent[i].type = "PushQuery"
                       /\ out'.sent[i].blk = out'.adds[k].blk}) <= 1
                /\ \A i \in 1..Len(out'.sent) :
                      /\ out'.sent[i].type \in {"PullQuery", "PushQuery"}
                      /\ out'.sent[i].blk = out'.adds[k].blk
                      => /\ i > out'.adds[k].at
                         /\ \/ out'.sent[i].type = "PushQuery"
                            \/ \E j \in 1..(i - 1) :
                                  /\ out'.sent[j].type = "PushQuery"
                                  /\ out'.sent[j].blk = out'.adds[k].blk
       ]_vars

\* a second block was built while one was processing, and pushed
C25_SecondBuiltBlockPushed ==
    /\ out.handler = "Notify" /\ out.builds = 1 /\ out.ret = Nil
    /\ Len(out.adds) = 1 /\ out.adds[1].issuedMetric = "built"
    /\ Cardinality(out.adds[1].processing) = 1
    /\ \E i \in 1..Len(out.sent) :
          out.sent[i].type = "PushQuery" /\ out.sent[i].blk = out.adds[1].blk

----------------------------------------------------------------------------
(* Start *)

C27_StartStepsInOrder ==
    /\ out.handler = "Start" =>
          /\ out.ret \in {"errLastAccepted", "errGetBlock", "errInitialize",
                          "errSetPreference"}
                => engineState = "Bootstrapping" /\ vmState = "Bootstrapping"
                      /\ out.deferred = 0
          /\ out.ret = Nil /\ Options(lastAccepted) = << >>
                => /\ out.initialized = << lastAccepted >>
                   /\ out.setPrefs = << lastAccepted >>
                   /\ preference = lastAccepted /\ vmPreference = lastAccepted
                   /\ processing = {}
                   /\ engineState = "NormalOp" /\ vmState = "NormalOp"
                   /\ out.deferred = 1
                   /\ out.adds = << >> /\ out.sent = << >> /\ out.builds = 0
    /\ engineState = "Bootstrapping" /\ out.ret = Nil
       /\ Options(VMLastAccepted(Idle)) = << >>
       => \A f \in Failures,
             sf \in {"none", "lastAccepted", "getBlock", "initialize", "setState"} :
            LET Steps(r) ==
                    << r.out.initialized, r.out.setPrefs, r.engineState, r.vmState,
                       r.out.deferred, r.out.ret >>
                la == VMLastAccepted(Idle)
                Begun(r) ==
                    Steps(r) =
                       IF sf = "lastAccepted"
                       THEN << << >>, << >>, "Bootstrapping", "Bootstrapping", 0,
                               "errLastAccepted" >>
                       ELSE IF sf = "getBlock"
                       THEN << << >>, << >>, "Bootstrapping", "Bootstrapping", 0,
                               "errGetBlock" >>
                       ELSE IF sf = "initialize"
                       THEN << << >>, << >>, "Bootstrapping", "Bootstrapping", 0,
                               "errInitialize" >>
                       ELSE IF f = "setPreference"
                       THEN << << la >>, << la >>, "Bootstrapping", "Bootstrapping", 0,
                               "errSetPreference" >>
                       ELSE IF sf = "setState"
                       THEN << << la >>, << la >>, "NormalOp", "Bootstrapping", 0,
                               "errSetState" >>
                       ELSE << << la >>, << la >>, "NormalOp", "NormalOp", 1, Nil >>
            IN Begun(Start(Cur("Start", Env(f, FALSE, FALSE, "fail", Empty, sf)), 0))

\* Start on a block without options returned nil
C27_StartedOnPlainBlock ==
    /\ out.handler = "Start" /\ out.ret = Nil /\ Options(lastAccepted) = << >>
    /\ engineState = "NormalOp" /\ vmState = "NormalOp" /\ out.deferred = 1

----------------------------------------------------------------------------
(* Failed queries *)

\* C28: the accepted frontier of a peer is the accepted id of the last Chits
\* handled for it, and nothing else changes it.  QueryFailed for a peer with a
\* frontier a calls Chits for the same peer and request with a as all three
\* ids, and so registers the voter Chits registers; for a peer without one it
\* registers a voter with no response options and no dependencies, whose
\* update picks no vote, so that the peer is dropped from the poll.
C28_QueryFailedVotesLastAccepted ==
    [][/\ out'.handler = "Chits"
             => acceptedFrontiers' = MapPut(acceptedFrontiers, out'.chits.nodeID,
                                            out'.chits.acceptedID)
       /\ out'.handler # "Chits" => acceptedFrontiers' = acceptedFrontiers
       /\ out'.handler = "QueryFailed" /\ out'.chits.nodeID # Empty
             => /\ out'.chits.nodeID \in DOMAIN acceptedFrontiers
                /\ out'.chits.preferredID = acceptedFrontiers[out'.chits.nodeID]
                /\ out'.chits.preferredIDAtHeight = out'.chits.preferredID
                /\ out'.chits.acceptedID = out'.chits.preferredID
                /\ out'.ret = Nil =>
                      /\ Len(out'.voters) = 1
                      /\ out'.voters[1].vdr = out'.chits.nodeID
                      /\ out'.voters[1].requestID = out'.chits.requestID
                      /\ out'.voters[1].responseOptions = << out'.chits.preferredID >>
                      /\ out'.voters[1].deps \subseteq {out'.chits.preferredID}
       /\ out'.handler = "QueryFailed" /\ out'.chits.nodeID = Empty
             => /\ Len(out'.voters) = 1
                /\ out'.voters[1].vdr \notin DOMAIN acceptedFrontiers
                /\ out'.voters[1].responseOptions = << >>
                /\ out'.voters[1].deps = {}
                /\ out'.adds = << >> /\ out'.requested = << >>
                /\ errs = Nil =>
                      /\ Len(out'.votes) = 1
                      /\ out'.votes[1].vdr = out'.voters[1].vdr
                      /\ out'.votes[1].requestID = out'.voters[1].requestID
                      /\ out'.votes[1].vote = Empty
                      /\ out'.votes[1].options = << >>
                /\ errs # Nil => out'.votes = << >>
                /\ out'.deferred = 1
      ]_vars

\* a QueryFailed for a peer whose Chits was handled before registered the
\* voter of Chits, which was applied to the poll
C28_QueryFailedOfKnownPeer ==
    /\ out.handler = "QueryFailed" /\ out.chits.nodeID # Empty /\ out.ret = Nil
    /\ out.chits.preferredID = acceptedFrontiers[out.chits.nodeID]
    /\ Len(out.voters) = 1 /\ Len(out.votes) = 1

----------------------------------------------------------------------------
(* Request ids and outstanding requests *)

\* C29: after Start the request counter never decreases; the Get, PullQuery
\* and PushQuery messages of a handler carry request ids above the counter as
\* the handler found it (above startReqID in Start), strictly increasing in
\* the order sent and not above the counter as the handler leaves it, so each
\* is above every id sent before; and no outstanding Get has the request id of
\* a poll, all of them being at most the counter.
C29_RequestIDsIncrease ==
    /\ [](/\ \A req \in DOMAIN blkReqs :
               /\ req[2] <= requestID
               /\ \A j \in 1..Len(polls) : polls[j].requestID # req[2]
          /\ \A j \in 1..Len(polls) : polls[j].requestID <= requestID
          /\ \A j, k \in 1..Len(polls) :
                j < k => polls[j].requestID < polls[k].requestID)
    /\ [][LET ids == SelectSeq(out'.sent,
                               LAMBDA m : m.type \in {"Get", "PullQuery", "PushQuery"})
          IN /\ out'.handler # "Start" => requestID' >= requestID
             /\ \A i \in 1..Len(ids) :
                   /\ ids[i].requestID > (IF out'.handler = "Start" THEN 0 ELSE requestID)
                   /\ ids[i].requestID <= requestID'
                   /\ \A j \in 1..(i - 1) : ids[j].requestID < ids[i].requestID
             /\ \A req \in DOMAIN blkReqs' \ DOMAIN blkReqs :
                   \E i \in 1..Len(ids) :
                       ids[i].type = "Get" /\ ids[i].requestID = req[2]
                          /\ ids[i].to = {req[1]}
      ]_vars

\* a handler sent a Get and then a query, with a Get and a poll outstanding
C29_GetThenQuerySent ==
    /\ \E i, j \in 1..Len(out.sent) :
          /\ i < j /\ out.sent[i].type = "Get"
          /\ out.sent[j].type \in {"PullQuery", "PushQuery"}
          /\ out.sent[i].requestID < out.sent[j].requestID
    /\ DOMAIN blkReqs # {} /\ polls # << >>

\* C30 as claimed: at most ConcurrentRepolls * K Gets are outstanding.
C30_RequestsBoundedByPolls == Cardinality(DOMAIN blkReqs) <= ConcurrentRepolls * K

\* C30: the outstanding Gets are for pairwise distinct blocks, one per block
\* id, whatever the number of polls; a PullQuery, a PushQuery, a Put or a
\* QueryFailed adds at most one to their number, a Chits at most two, and no
\* other handler adds any.
C30_RequestsBoundedByBlocksAsked ==
    /\ [](\A p, q \in DOMAIN blkReqs : blkReqs[p] = blkReqs[q] => p = q)
    /\ [][Cardinality(DOMAIN blkReqs') - Cardinality(DOMAIN blkReqs)
             <= (IF out'.handler \in {"PullQuery", "PushQuery", "Put", "QueryFailed"}
                 THEN 1
                 ELSE IF out'.handler = "Chits" THEN 2 ELSE 0)]_vars

\* more Gets outstanding than ConcurrentRepolls * K, with one poll
C30_MoreRequestsThanPolled ==
    /\ Cardinality(DOMAIN blkReqs) > ConcurrentRepolls * K
    /\ Len(polls) <= ConcurrentRepolls

----------------------------------------------------------------------------
(* Queries *)

C32_OneRequestPerBlock ==
    /\ [](/\ \A p, q \in DOMAIN blkReqs : p # q => blkReqs[p] # blkReqs[q]
          /\ Live =>
                \A vdrID \in Nodes, k \in DOMAIN blkReqs :
                   LET Asked(r) ==
                           /\ \A i \in 1..Len(r.out.sent) : r.out.sent[i].type # "Get"
                           /\ r.blkReqs = blkReqs
                           /\ r.blkReqSourceMetric = blkReqSourceMetric
                           /\ r.requestID = requestID
                                + Cardinality({i \in 1..Len(r.out.sent) :
                                      r.out.sent[i].type \in {"PullQuery", "PushQuery"}})
                   IN getBlock(Idle, blkReqs[k])
                      \/ Asked(PullQuery(Cur("PullQuery",
                                             Env("none", FALSE, FALSE, "fail", Empty,
                                                 "none")),
                                         vdrID, 9, blkReqs[k], 0)))
    /\ [][\A i \in 1..Len(out'.sent) :
             out'.sent[i].type = "Get" /\ HasValue(blkReqs, out'.sent[i].blk)
             => \/ KeyOf(blkReqs, out'.sent[i].blk) \notin DOMAIN blkReqs'
                \/ blkReqs'[KeyOf(blkReqs, out'.sent[i].blk)] # out'.sent[i].blk
      ]_vars

\* a Chits named a block that is requested and that the engine does not
\* have: the voter waits on it and no second Get is sent
C32_RequestedBlockAskedAgain ==
    /\ out.handler = "Chits" /\ out.chits.waitPreferred /\ out.ret = Nil
    /\ HasValue(blkReqs, out.chits.preferredID)
    /\ out.chits.preferredID \notin pending \cup nonVerifiedCache \cup vmBlocks
    /\ \A i \in 1..Len(out.sent) : out.sent[i].type # "Get"

----------------------------------------------------------------------------
(* deliver *)

\* C33: the loop of deliver takes the blocks of its queue in order and queues
\* the options of a block after it added the block: an oracle block that is
\* added is followed in the additions of the same deliver by its options, in
\* the order of Options, each added with the oracle block processing; an
\* option is added in no other way; and the loop run on an oracle block that
\* it drops, or whose parent can have no child issued, examines that block
\* alone and adds nothing.
C33_OptionsFollowTheirOracleBlock ==
    /\ \A i \in 1..Len(out.adds) :
          LET blk == out.adds[i].blk
              options == Options(blk)
          IN /\ out.handler # "Start" /\ options # << >> =>
                   /\ Len(out.adds) >= i + Len(options)
                   /\ \A k \in 1..Len(options) :
                         /\ out.adds[i + k].blk = options[k]
                         /\ out.adds[i + k].nodeID = out.adds[i].nodeID
                         /\ out.adds[i + k].issuedMetric = out.adds[i].issuedMetric
                         /\ out.adds[i + k].at = out.adds[i].at
                         /\ out.adds[i + k].processing
                               = out.adds[i].processing \cup {blk}
                                   \cup {options[j] : j \in 1..(k - 1)}
             /\ out.handler # "Start" /\ Options(Parent[blk]) # << >> =>
                   \E j \in 1..(i - 1) :
                      /\ out.adds[j].blk = Parent[blk]
                      /\ i - j \in 1..Len(Options(Parent[blk]))
                      /\ Options(Parent[blk])[i - j] = blk
    /\ Live =>
          \A blk \in {b \in network \cup vmBlocks : Options(b) # << >>} :
             LET Skipped(r) ==
                     /\ r.fulfill = << >> /\ r.abandon = << blk >> /\ r.err = Nil
                     /\ r.s.out.adds = << >> /\ r.s.processing = processing
             IN \/ /\ ~ shouldBlockBeDropped(Idle, blk)
                   /\ canBlockHaveChildIssued(Idle, Parent[blk])
                \/ Skipped(deliverLoop(Idle, "n1", "push", << blk >>, << >>, << >>))

\* an oracle block and its two options were added by one deliver
C33_OracleBlockAddedWithOptions ==
    /\ out.handler \in {"Put", "PushQuery"} /\ Len(out.adds) = 3
    /\ Options(out.adds[1].blk) = << out.adds[2].blk, out.adds[3].blk >>
    /\ Len(out.delivers) >= 1 /\ Cardinality(out.delivers[1].added) = 3

\* C34 as claimed: when a deliver returns without error, the preference the
\* VM was given last is the consensus preference of the moment its queue
\* drained.
C34_LastPreferenceIsThatOfTheDrainedQueue ==
    \A i \in 1..Len(out.delivers) :
        out.delivers[i].err = Nil => out.delivers[i].given = out.delivers[i].drained

\* C34: the loop of deliver over its queue fulfils and abandons no job, sends
\* nothing and does not call VM.SetPreference; deliver then calls it once,
\* with the consensus preference of that moment, so that a handler without
\* error whose voters applied no vote has called it once per deliver; and when
\* a deliver returns without error the VM holds the consensus preference of
\* the moment of the return, which differs from that of the drained queue only
\* when a job that the deliver fulfilled has delivered a block or applied a
\* vote in between.
C34_PreferenceSetOnceAfterTheQueue ==
    /\ Live =>
          \A blk \in network :
             LET Drained(r) ==
                     /\ r.s.blocked = blocked /\ r.s.jobs = jobs
                     /\ r.s.pending = pending /\ r.s.blkReqs = blkReqs
                     /\ r.s.polls = polls /\ r.s.vmPreference = vmPreference
                     /\ r.s.out.sent = << >> /\ r.s.out.setPrefs = << >>
                     /\ r.s.out.votes = << >>
             IN Drained(deliverLoop(Idle, "n1", "push", << blk >>, << >>, << >>))
    /\ \A i \in 1..Len(out.delivers) :
          out.delivers[i].err = Nil =>
             /\ out.delivers[i].given = out.delivers[i].preferred
             /\ out.delivers[i].given # out.delivers[i].drained
                   => Len(out.delivers) > 1 \/ out.votes # << >>
    /\ out.ret = Nil /\ errs = Nil /\ out.votes = << >> =>
          /\ Len(out.setPrefs) = Len(out.delivers)
                                 + (IF out.handler = "Start" /\ out.delivers = << >>
                                    THEN 1 ELSE 0)
          /\ \A i \in 1..Len(out.delivers) :
                \E k \in 1..Len(out.setPrefs) :
                    out.setPrefs[k] = out.delivers[i].drained

\* a deliver returned after a job it fulfilled had delivered a block that
\* became the preference
C34_PreferenceMovedByFulfilledJob ==
    \E i \in 1..Len(out.delivers) :
        /\ out.delivers[i].err = Nil /\ out.ret = Nil
        /\ out.delivers[i].given # out.delivers[i].drained
        /\ out.delivers[i].given = preference /\ vmPreference = preference
        /\ out.votes = << >>

----------------------------------------------------------------------------
(* The non-verified tree *)

\* C35 as claimed: a block enters the non-verified tree only if its Verify
\* failed.
C35_OnlyBlocksFailingVerifyEnter ==
    [][\A x \in DOMAIN nonVerifieds' \ DOMAIN nonVerifieds : ~ Verify(x)]_vars

\* C35: a block whose Verify fails in deliver enters the non-verified tree
\* iff it is neither processing nor decided and its parent is in the tree or
\* processing; the other blocks that enter pass Verify and enter under a
\* parent that is in the tree (their issuer was abandoned), and none that
\* enters is left pending; a block of the tree has
\* its parent as its edge, is neither processing nor decided and has its
\* parent in the tree, processing or accepted last, every block added to consensus was out of
\* the tree when added, and so no block is in the tree and processing.
C35_TreeHoldsUnissuedBlocksOverProcessing ==
    /\ [](/\ DOMAIN nonVerifieds \cap processing = {}
          /\ \A x \in DOMAIN nonVerifieds :
                /\ nonVerifieds[x] = Parent[x]
                /\ x \in nonVerifiedCache
                /\ ~ isBlockDecided(Idle, x)
                /\ Parent[x] \in DOMAIN nonVerifieds \cup processing \cup {lastAccepted}
          /\ \A i \in 1..Len(out.adds) : out.adds[i].blk \notin out.adds[i].inTree
          /\ Live =>
                \A blk \in {b \in network : ~ Verify(b)} :
                   LET Failed(r) ==
                           /\ r.fulfill = << >> /\ r.abandon = << blk >>
                           /\ r.s.processing = processing
                           /\ IF /\ ~ shouldBlockBeDropped(Idle, blk)
                                 /\ canBlockHaveChildIssued(Idle, Parent[blk])
                                 /\ Parent[blk] \in DOMAIN nonVerifieds \cup processing
                              THEN r.s.nonVerifieds
                                      = MapPut(nonVerifieds, blk, Parent[blk])
                              ELSE r.s.nonVerifieds = nonVerifieds
                   IN Failed(deliverLoop(Idle, "n1", "push", << blk >>, << >>, << >>)))
    /\ [][\A x \in DOMAIN nonVerifieds' \ DOMAIN nonVerifieds :
             /\ ~ Verify(x) \/ Parent[x] \in DOMAIN nonVerifieds'
             /\ x \notin pending'
             /\ x \notin processing
      ]_vars

\* a block that passes Verify is in the non-verified tree, under a block that
\* failed it
C35_VerifiedBlockInTree ==
    \E x \in DOMAIN nonVerifieds :
        /\ Verify(x) /\ ~ Verify(nonVerifieds[x])
        /\ nonVerifieds[x] \in DOMAIN nonVerifieds
        /\ Parent[nonVerifieds[x]] \in processing

----------------------------------------------------------------------------
(* Repolls *)

\* C36: the deferred work run with no error latched and no block to build
\* sends, when blocks are processing and validators can be sampled, one
\* PullQuery for the preference for each poll lacking to ConcurrentRepolls,
\* with fresh request ids and a poll registered for each, so that at least
\* ConcurrentRepolls polls are outstanding afterwards; it sends nothing when
\* no block is processing or validators cannot be sampled.  In every handler a
\* PushQuery is for a block the handler added, never a repoll.
C36_RepollsFillThePolls ==
    /\ [](Live /\ errs = Nil =>
           \A f \in {"none", "sample"} :
              LET lacking == IF Len(polls) < ConcurrentRepolls
                             THEN ConcurrentRepolls - Len(polls) ELSE 0
                  Repolled(r) ==
                     /\ r.err = Nil /\ r.s.out.builds = 0
                     /\ r.s.out.sent
                          = IF processing # {} /\ f = "none"
                            THEN [i \in 1..lacking |->
                                     Msg("PullQuery", {"n1"}, requestID + i, preference,
                                         Height(lastAccepted) + 1)]
                            ELSE << >>
                     /\ Len(r.s.polls) = Len(polls) + Len(r.s.out.sent)
                     /\ \A i \in 1..Len(r.s.out.sent) :
                           r.s.polls[Len(polls) + i].requestID = requestID + i
                     /\ processing # {} /\ f = "none"
                           => Len(r.s.polls) >= ConcurrentRepolls
                     /\ r.s.requestID = requestID + Len(r.s.out.sent)
              IN Repolled(executeDeferredWork(
                     Cur("Gossip", Env(f, FALSE, FALSE, "pref", Empty, "none")))))
    /\ [][\A i \in 1..Len(out'.sent) :
             out'.sent[i].type = "PushQuery"
             => \E k \in 1..Len(out'.adds) :
                   out'.adds[k].blk = out'.sent[i].blk /\ out'.adds[k].at < i
      ]_vars

\* a vote was applied and left blocks processing with no poll: a repoll for
\* the preference was sent
C36_RepolledAfterVote ==
    /\ out.handler = "Chits" /\ out.ret = Nil /\ Len(out.votes) = 1
    /\ out.adds = << >> /\ processing # {}
    /\ Len(out.sent) = 1 /\ out.sent[1].type = "PullQuery"
    /\ out.sent[1].blk = preference
    /\ Len(polls) = ConcurrentRepolls

----------------------------------------------------------------------------
(* Answers to queries *)

\* C37: a PullQuery and a PushQuery, parsed or not, send exactly one Chits: it
\* is the first message of the handler, goes to the peer that asked alone and
\* carries the request id of the query, the id accepted last and the
\* preference as they were before the handler (the id accepted last in place of
\* the preference while state syncing); every block the handler adds is added
\* after it.  No other handler sends a Chits.
C37_QueriesAnsweredFirst ==
    [][LET answers == {i \in 1..Len(out'.sent) : out'.sent[i].type = "Chits"}
       IN IF out'.handler \in {"PullQuery", "PushQuery"}
          THEN /\ answers = {1}
               /\ out'.sent[1].to = {out'.query.nodeID}
               /\ out'.sent[1].requestID = out'.query.requestID
               /\ out'.query.nodeID \in Nodes
               /\ out'.sent[1].accepted = lastAccepted
               /\ out'.sent[1].blk = IF stateSyncing THEN lastAccepted ELSE preference
               /\ \A k \in 1..Len(out'.adds) : out'.adds[k].at >= 1
               /\ ~ out'.parsed => Len(out'.sent) = 1
          ELSE answers = {}
      ]_vars

\* a PushQuery brought a block that became the preference; its answer names
\* the preference held before
C37_AnswerNamesFormerPreference ==
    /\ out.handler = "PushQuery" /\ out.ret = Nil
    /\ Len(out.adds) >= 1 /\ out.adds[1].blk = preference
    /\ out.sent[1].type = "Chits" /\ out.sent[1].blk # preference
    /\ out.sent[1].blk = out.adds[1].lastAccepted

----------------------------------------------------------------------------
(* issueChain *)

----------------------------------------------------------------------------
(* What blocked jobs wait for *)

\* C39: between handlers, every block id a blocked job still waits for is
\* pending or is the block of an outstanding Get.
C39_BlockedJobsAreOwedTheirBlocks ==
    out.ret = Nil /\ errs = Nil =>
        \A id \in DOMAIN blocked :
            blocked[id] # << >> => id \in pending \/ HasValue(blkReqs, id)

----------------------------------------------------------------------------
(* Liveness of blocked work *)

\* C40: blocked work is not left waiting with nothing owed to it: between
\* the handlers of an engine that has returned no error, when no Get is
\* outstanding (so that no Put and no GetFailed is still to come), no block is
\* pending and no job waits for a block.  Otherwise the engine may receive
\* nothing more, and the block and the job wait for ever.
C40_NothingWaitsWhenNothingIsOutstanding ==
    out.ret = Nil /\ errs = Nil /\ blkReqs = << >> =>
        /\ pending = {}
        /\ \A b \in DOMAIN blocked : blocked[b] = << >>

====
